---- MODULE Spec2Model ----
(***************************************************************************)
(* MonoKey: a client-side credential vault.  The model follows the source  *)
(* files: CryptoUtils and LocalStorageService (src/unnamed/part_006),      *)
(* DatabaseService (src/src/utils/database.ts), AuthContext,               *)
(* CredentialContext, MonoPasswordPrompt, Dashboard and Settings.          *)
(*                                                                         *)
(* Strings are modelled by structured values so that the conversions the   *)
(* code performs (JSON.stringify/JSON.parse, the "salt:iv:ciphertext"      *)
(* join and split, the cipher itself) are computed, not assumed.           *)
(***************************************************************************)
EXTENDS Integers, Sequences, FiniteSets, TLC

(***************************************************************************)
(* Bounds of the model.                                                    *)
(***************************************************************************)
\* Largest number of rows the remote table holds, and of records of the
\* in-memory local working set.
MaxRows == 2
\* Number of distinct random draws one call of encrypt can make.
MaxDraw == 4
\* Largest value of the logical clock that stamps rows and records: the number
\* of inserts and updates of one behaviour.
MaxClock == 2
\* Largest number of encrypt calls of one behaviour of SpecFresh.
MaxCalls == 3
\* Largest count of failed submissions the prompt's counter reaches.
MaxAttempts == 4
\* Largest password length the generator's slider offers (from 1).
MaxLength == 2
\* Largest number of getCredentials calls followed while they are in flight.
MaxInFlight == 2

(***************************************************************************)
(* JavaScript values.                                                      *)
(***************************************************************************)
\* The JavaScript value undefined, as the value of an absent property.
UNDEF == "undefined"
\* An object without own properties.
EmptyObj == [n \in {} |-> ""]
\* obj.name: undefined when the object (or number) has no such property.
Prop(obj, name) == IF name \in DOMAIN obj THEN obj[name] ELSE UNDEF
\* JavaScript truthiness of a string-or-undefined value.
Truthy(v) == v # UNDEF /\ v # ""

\* A string is modelled by its kind and content: the text of a JSON object
\* (k = "json", f = its properties) or any other text (k = "raw", s).
TextJson(f) == [k |-> "json", s |-> "", f |-> f]
TextRaw(s) == [k |-> "raw", s |-> s, f |-> EmptyObj]
\* The empty string.
EmptyText == TextRaw("")

\* JSON.stringify of an object: properties whose value is undefined are left out.
JSONstringify(obj) ==
  TextJson([n \in {m \in DOMAIN obj : obj[m] # UNDEF} |-> obj[n]])

\* JSON.parse: the object of a JSON object text; a number for a numeric literal
\* (a number has no own properties, which is all the callers look at); a
\* SyntaxError (ok = FALSE) for the empty string and any other text.
JSONparse(text) ==
  IF text.k = "json" THEN [ok |-> TRUE, v |-> text.f]
  ELSE IF text.s \in {"0", "9"} THEN [ok |-> TRUE, v |-> EmptyObj]
  ELSE [ok |-> FALSE, v |-> EmptyObj]

(***************************************************************************)
(* CryptoUtils (crypto-js).                                                *)
(***************************************************************************)
\* The master-key candidates a user can type.
Secrets == {"monokey-1", "monokey-2"}

\* SHA-256 hex digest, modelled as an injective tagging of its input.
SHA256(s) == <<"sha256", s>>
\* A plain (unhashed) string stored where a digest is expected.
Str(s) == <<"str", s>>

\* Tokens of an envelope string: a hex number, the separator ':' and the
\* base64 text of a ciphertext.
NoCipher == [key |-> <<"", <<>>>>, data |-> EmptyText, osalt |-> 0]
Hex(n) == [t |-> "hex", n |-> n, c |-> NoCipher]
Sep == [t |-> "sep", n |-> 0, c |-> NoCipher]
B64(c) == [t |-> "b64", n |-> 0, c |-> c]

\* a + ':' + b + ':' + c
Join3(a, b, c) == a \o <<Sep>> \o b \o <<Sep>> \o c

\* String.prototype.split(':'): the pieces between the separators.
RECURSIVE Split(_)
Split(s) ==
  IF \A i \in 1..Len(s) : s[i] # Sep THEN <<s>>
  ELSE LET i == CHOOSE j \in 1..Len(s) :
                  s[j] = Sep /\ \A h \in 1..(j - 1) : s[h] # Sep
       IN <<SubSeq(s, 1, i - 1)>> \o Split(SubSeq(s, i + 1, Len(s)))

\* PBKDF2(monoPassword, salt, 256 bit, 10000 rounds).toString(): deterministic,
\* modelled as collision free.
deriveKey(monoPassword, salt) == <<monoPassword, salt>>

\* What crypto-js returns when a ciphertext is decrypted under a key that is
\* not the one it was made with.  Pkcs7.unpad does not validate the padding
\* (it drops as many bytes as the last byte says) and the UTF-8 decoding
\* throws only on malformed bytes, so the outcome depends on the ciphertext
\* bytes, which the random salt of the encryption decides:
\*   0: malformed UTF-8 (throws)      1: the empty string
\*   2: a short text that is not JSON 3: a short text that is a JSON number
WrongKeyOutcome(osalt) ==
  CASE osalt % 4 = 0 -> [ok |-> FALSE, val |-> EmptyText]
    [] osalt % 4 = 1 -> [ok |-> TRUE, val |-> EmptyText]
    [] osalt % 4 = 2 -> [ok |-> TRUE, val |-> TextRaw("=?")]
    [] OTHER -> [ok |-> TRUE, val |-> TextRaw("9")]

\* CryptoJS.AES.encrypt(data, key, ...).toString() with a string key: the key
\* is a passphrase, the cipher key and IV come from it and a random salt
\* (osalt) that is stored with the ciphertext; the iv option is not used.
AESencrypt(data, key, osalt) == [key |-> key, data |-> data, osalt |-> osalt]

\* CryptoJS.AES.decrypt(encrypted, key, ...).toString(CryptoJS.enc.Utf8)
AESdecrypt(c, key) ==
  IF c.key = key THEN [ok |-> TRUE, val |-> c.data]
  ELSE WrongKeyOutcome(c.osalt)

\* The random values of one encryption: salt, iv and the cipher's own salt.
Draw(n) == [salt |-> n, iv |-> n + 10, osalt |-> n]
RandomDraws == {Draw(n) : n \in 0..(MaxDraw - 1)}

\* The message of the error decrypt throws.
DecryptError == "Failed to decrypt data. Invalid MonoPassword or corrupted data."

\* A returned value, or a thrown error.
Ok(v) == [ok |-> TRUE, val |-> v, err |-> ""]
Err(msg) == [ok |-> FALSE, val |-> EmptyText, err |-> msg]

\* An encrypt that uses fixed values where it should draw random ones.
encryptFixedValues(data, monoPassword, r) ==
  LET salt == <<Hex(0)>>
      key == deriveKey(monoPassword, salt)
  IN Join3(salt, <<Hex(10)>>, <<B64(AESencrypt(data, key, 0))>>)

\* An encrypt that derives the key from the iv instead of the salt.
encryptKeyFromIv(data, monoPassword, r) ==
  LET salt == <<Hex(r.salt)>>
      key == deriveKey(monoPassword, <<Hex(r.iv)>>)
  IN Join3(salt, <<Hex(r.iv)>>, <<B64(AESencrypt(data, key, r.osalt))>>)

\* CryptoUtils.encrypt(data, monoPassword), with the random values r.
encrypt(data, monoPassword, r) ==
  LET salt == <<Hex(r.salt)>>
      key == deriveKey(monoPassword, salt)
  IN Join3(salt, <<Hex(r.iv)>>, <<B64(AESencrypt(data, key, r.osalt))>>)

\* A decrypt that lets the error of the format test through.
decryptFormatError(encryptedData, monoPassword) ==
  LET parts == Split(encryptedData)
  IN IF Len(parts) # 3 THEN Err("Invalid encrypted data format")
     ELSE LET key == deriveKey(monoPassword, parts[1])
              encrypted == parts[3]
              decrypted ==
                IF Len(encrypted) = 1 /\ encrypted[1].t = "b64"
                THEN AESdecrypt(encrypted[1].c, key)
                ELSE [ok |-> FALSE, val |-> EmptyText]
          IN IF decrypted.ok THEN Ok(decrypted.val) ELSE Err(DecryptError)

\* CryptoUtils.decrypt(encryptedData, monoPassword)
decrypt(encryptedData, monoPassword) ==
  LET parts == Split(encryptedData)
  IN IF Len(parts) # 3 THEN Err(DecryptError)
     ELSE LET key == deriveKey(monoPassword, parts[1])
              encrypted == parts[3]
              decrypted ==
                IF Len(encrypted) = 1 /\ encrypted[1].t = "b64"
                THEN AESdecrypt(encrypted[1].c, key)
                ELSE [ok |-> FALSE, val |-> EmptyText]
          IN IF decrypted.ok THEN Ok(decrypted.val) ELSE Err(DecryptError)

\* The character classes of generatePassword, each stood for by one character
\* of its string.
Lowercase == <<"a">>
Uppercase == <<"A">>
Numbers == <<"0">>
SpecialChars == <<"!">>
\* let charset = ''; if (options.includeLowercase) charset += ...
Charset(options) ==
  (IF options.includeLowercase THEN Lowercase ELSE <<>>)
    \o (IF options.includeUppercase THEN Uppercase ELSE <<>>)
    \o (IF options.includeNumbers THEN Numbers ELSE <<>>)
    \o (IF options.includeSpecialChars THEN SpecialChars ELSE <<>>)
\* What Math.floor(Math.random() * charset.length) can be, for every pass of
\* the loop of a call with these options (no pass with an empty charset).
RandomIndexes(options) ==
  IF Charset(options) = <<>> THEN {<<>>}
  ELSE [1..options.length -> 0..(Len(Charset(options)) - 1)]

\* A generatePassword whose loop stops one pass early.
generatePasswordShort(options, random) ==
  IF Charset(options) = <<>> THEN <<>>
  ELSE [i \in 1..(options.length - 1) |-> Charset(options)[random[i] + 1]]

\* CryptoUtils.generatePassword(options); random[i] is the index drawn in the
\* i-th pass of the loop.
generatePassword(options, random) ==
  IF Charset(options) = <<>> THEN <<>>
  ELSE [i \in 1..options.length |-> Charset(options)[random[i] + 1]]

\* A hashPassword that returns its input unhashed.
hashPasswordPlain(password) == Str(password)

\* CryptoUtils.hashPassword(password)
hashPassword(password) == SHA256(password)

\* A compareHash that accepts every input once a digest is stored.
compareHashAny(input, hashed) == hashed # Str("")

\* CryptoUtils.compareHash(input, hashed)
compareHash(input, hashed) == SHA256(input) = hashed

(***************************************************************************)
(* Credentials and DatabaseService (the remote table "credentials").       *)
(***************************************************************************)
SensitiveFields ==
  {"username", "password", "recoveryEmail", "recoveryMobile", "twoFactorCodes"}

\* The sensitiveData object both services build from a credential.
sensitiveDataOf(credential) ==
  [n \in SensitiveFields |-> Prop(credential, n)]

\* a || b on string-or-undefined values.
OrElse(a, b) == IF Truthy(a) THEN a ELSE b

\* The icon column's default, also used by saveCredential.
DefaultIcon == "lock"

\* s.reverse()
Reverse(s) == [i \in 1..Len(s) |-> s[Len(s) + 1 - i]]

\* The rows of a user, newest first:
\* .select('*').eq('user_id', uid).order('created_at', {ascending: false})
SelectRows(table, uid) ==
  Reverse(SelectSeq(table, LAMBDA row : row.user_id = uid))

\* An update of the profile row that never reaches the table.
updateMonoPasswordHashLost(table, uid, monoPasswordHash) == table

\* DatabaseService.updateMonoPasswordHash:
\* .update({ mono_password_hash: monoPasswordHash }).eq('id', user.id)
updateMonoPasswordHash(table, uid, monoPasswordHash) ==
  [table EXCEPT ![uid] = monoPasswordHash]

\* An insert payload that also writes the username as a column of its own.
saveCredentialPayloadClear(uid, credential, monoPassword, r) ==
  [user_id |-> uid,
   account_name |-> credential.accountName,
   username |-> credential.username,
   encrypted_data |->
     encrypt(JSONstringify(sensitiveDataOf(credential)), monoPassword, r),
   icon |-> OrElse(Prop(credential, "icon"), DefaultIcon)]

\* The insert payload of DatabaseService.saveCredential.
saveCredentialPayload(uid, credential, monoPassword, r) ==
  [user_id |-> uid,
   account_name |-> credential.accountName,
   encrypted_data |->
     encrypt(JSONstringify(sensitiveDataOf(credential)), monoPassword, r),
   icon |-> OrElse(Prop(credential, "icon"), DefaultIcon)]

\* The row the table keeps for an insert at time now: id and timestamps are
\* the table's defaults.
InsertedRow(payload, now) ==
  [id |-> now, user_id |-> payload.user_id,
   account_name |-> payload.account_name,
   encrypted_data |-> payload.encrypted_data, icon |-> payload.icon,
   created_at |-> now, updated_at |-> now]

\* One pass of the loop of DatabaseService.getCredentials: the credential of a
\* row, or nothing when decrypt or JSON.parse throws.
decryptRow(encCred, monoPassword) ==
  LET decryptedData == decrypt(encCred.encrypted_data, monoPassword)
      sensitiveData == JSONparse(decryptedData.val)
  IN IF ~decryptedData.ok \/ ~sensitiveData.ok THEN <<>>
     ELSE <<[id |-> encCred.id,
             accountName |-> encCred.account_name,
             username |-> Prop(sensitiveData.v, "username"),
             password |-> Prop(sensitiveData.v, "password"),
             recoveryEmail |-> Prop(sensitiveData.v, "recoveryEmail"),
             recoveryMobile |-> Prop(sensitiveData.v, "recoveryMobile"),
             twoFactorCodes |-> Prop(sensitiveData.v, "twoFactorCodes"),
             icon |-> encCred.icon,
             createdAt |-> encCred.created_at,
             updatedAt |-> encCred.updated_at]>>

\* The decryption loop of DatabaseService.getCredentials over the selected rows.
RECURSIVE decryptRows(_, _)
decryptRows(encryptedCredentials, monoPassword) ==
  IF encryptedCredentials = <<>> THEN <<>>
  ELSE decryptRow(Head(encryptedCredentials), monoPassword)
         \o decryptRows(Tail(encryptedCredentials), monoPassword)

\* DatabaseService.getCredentials(monoPassword) for the signed-in uid.
DatabaseService_getCredentials(table, uid, monoPassword) ==
  decryptRows(SelectRows(table, uid), monoPassword)

\* The merge of DatabaseService.updateCredential (database.ts): a field of the
\* update that is undefined or the empty string keeps the current value.
updatedData(credential, currentDecrypted) ==
  [n \in SensitiveFields |->
     OrElse(Prop(credential, n), Prop(currentDecrypted, n))]

\* The merge of the other copy of updateCredential (supabase.ts): only an
\* undefined field keeps the current value.
updatedDataStrict(credential, currentDecrypted) ==
  [n \in SensitiveFields |->
     IF Prop(credential, n) # UNDEF THEN Prop(credential, n)
     ELSE Prop(currentDecrypted, n)]

\* The update payload of DatabaseService.updateCredential (database.ts), given
\* the decrypted current data.
updateFields(credential, currentDecrypted, monoPassword, r) ==
  LET base == [c \in {"encrypted_data"} |->
                 encrypt(JSONstringify(updatedData(credential, currentDecrypted)),
                         monoPassword, r)]
      name == IF Truthy(Prop(credential, "accountName"))
              THEN [c \in {"account_name"} |-> credential.accountName]
              ELSE EmptyObj
      icon == IF Truthy(Prop(credential, "icon"))
              THEN [c \in {"icon"} |-> credential.icon]
              ELSE EmptyObj
  IN base @@ name @@ icon

\* The row after .update(fields) at time now; the table's trigger sets updated_at.
UpdatedRow(row, fields, now) ==
  [n \in DOMAIN row |->
     IF n \in DOMAIN fields THEN fields[n]
     ELSE IF n = "updated_at" THEN now
     ELSE row[n]]

\* The rows that .eq('id', id).eq('user_id', uid) selects.
MatchingRows(table, id, uid) ==
  SelectSeq(table, LAMBDA row : row.id = id /\ row.user_id = uid)

(***************************************************************************)
(* State.                                                                  *)
(***************************************************************************)
VARIABLES
  \* --- a run of the CryptoUtils functions on chosen arguments
  cP,        \* the plaintext given to encrypt
  cS1,       \* the secret given to encrypt and to hashPassword
  cS2,       \* the secret given to decrypt, compareHash and verifyMonoKey
  cEnv,      \* the envelope encrypt returned (<<>> before it ran)
  cRes,      \* what decrypt returned or threw
  cHash,     \* what compareHash(cS2, hashPassword(cS1)) returned
  cVerify,   \* what verifyMonoKey(cS2) returned
  cPc,       \* how far the encrypt/decrypt run is
  encCalls,  \* the calls so far: of encrypt (SpecFresh), of decrypt (SpecDecrypt)
  \* --- PasswordGenerator and the password field of the CredentialForm
  generator,
  \* --- the asynchronous parts of AuthContext and CredentialContext
  authStateChangeRef,    \* authStateChangeRef.current
  authHandler,           \* the listener call that awaits fetchUserProfile
  signingOut,            \* signOut() has cleared the state and awaits the rest
  loadingRef,            \* loadingRef.current
  lastUserIdRef,         \* lastUserIdRef.current, "" for null
  lastMonoKeyStatusRef,  \* lastMonoKeyStatusRef.current
  inFlight,              \* the getCredentials calls loadCredentials awaits
  isAuthProcessing,
  processingTimeoutRef,  \* the safety timer: "null", "armed", "fired", or
                         \* "absent" in the copy of AuthContext without it
  authCall,              \* the signIn, signUp or signOut that awaits the remote
  \* --- AuthContext
  user,      \* the profile in the context, NoUser for null
  monoKey,   \* the master key in memory, NoKey for null
  isAuthenticated,
  isMonoKeyVerified,
  \* --- the router: "login" (public), "dashboard" or "settings"
  page,
  \* --- CredentialContext
  credentials,            \* the decrypted list the context holds
  hasLoadedCredentials,
  \* --- Dashboard and its MonoPasswordPrompt (initial values while unmounted)
  dashboardCredentials,   \* the Dashboard's own state "credentials"
  storageLocation,
  nextStorageLocation,    \* "" for null; the discard dialog is open when set
  localCredentials,
  isLocalFileActive,
  hasUnsavedChanges,
  selectedLocalFile,
  fileOwnerInfo,
  pendingAction,
  isMonoPasswordPromptOpen,
  attempts,
  \* --- durable media besides the table "credentials"
  profiles,        \* user_profiles.mono_password_hash of each account
  browserStorage,  \* the items of localStorage and sessionStorage
  download,        \* the last file handed to the browser as a download
  \* --- what the last handler did if it was one of CredentialContext or went
  \* to a local file: its name, error, whether it called CryptoUtils.encrypt
  \* or decrypt, and the file; NoCall after any other handler
  lastCall,
  \* --- the remote store (Supabase)
  session,   \* the id supabase.auth.getUser() answers, NoSession for none
  rows,      \* the table "credentials", oldest row first
  clock,     \* the logical time of the last insert or update
  payload,   \* the last object SpecStore's calls handed to .insert() or .update()
  sOp        \* the last DatabaseService call SpecStore made: arguments, outcome

cryptoVars == <<cP, cS1, cS2, cEnv, cRes, cHash, cVerify, cPc, encCalls>>
authVars == <<user, monoKey, isAuthenticated, isMonoKeyVerified>>
contextVars == <<credentials, hasLoadedCredentials>>
dashboardVars ==
  <<dashboardCredentials, storageLocation, nextStorageLocation,
    localCredentials, isLocalFileActive, hasUnsavedChanges, selectedLocalFile,
    fileOwnerInfo, pendingAction, isMonoPasswordPromptOpen, attempts>>
mediaVars == <<profiles, browserStorage, download>>
uiVars == <<page, contextVars, dashboardVars, mediaVars, lastCall>>
storeVars == <<session, rows, clock, payload, sOp>>
asyncVars ==
  <<authStateChangeRef, authHandler, signingOut, loadingRef, lastUserIdRef,
    lastMonoKeyStatusRef, inFlight>>
processingVars == <<isAuthProcessing, processingTimeoutRef, authCall>>
sideVars == <<generator, asyncVars, processingVars>>
vars == <<cryptoVars, authVars, storeVars, uiVars, sideVars>>

\* The password field of the form before anything was typed or applied.
Unset == <<"(unset)">>
\* PasswordGenerator as mounted (closed), with the slider at its largest value.
GeneratorInit ==
  [isOpen |-> FALSE, password |-> <<>>, length |-> MaxLength,
   includeUppercase |-> TRUE, includeLowercase |-> TRUE,
   includeNumbers |-> TRUE, includeSpecialChars |-> TRUE,
   formPassword |-> Unset]
\* Nothing outside the specification at hand has happened.
\* No listener call awaits a profile.
NoHandler == [event |-> "none", uid |-> ""]
\* The refs as created, nothing awaited.
AsyncIdle ==
  /\ authStateChangeRef = FALSE /\ authHandler = NoHandler
  /\ signingOut = FALSE
  /\ loadingRef = FALSE /\ lastUserIdRef = "" /\ lastMonoKeyStatusRef = FALSE
  /\ inFlight = <<>>
\* No call of AuthContext awaits the remote.
NoAuthCall == [op |-> "none", uid |-> ""]
\* isAuthProcessing as created, the timer of AuthContext.tsx not armed.
ProcessingIdle ==
  /\ isAuthProcessing = FALSE /\ processingTimeoutRef = "null"
  /\ authCall = NoAuthCall
SideIdle == generator = GeneratorInit /\ AsyncIdle /\ ProcessingIdle

\* The account that uses the application, and the accounts local files were
\* written for.
Users == {"uA"}
Owners == {"uA", "uB"}
\* The empty string stored as mono_password_hash: no master key set up yet.
EmptyHash == Str("")
\* user === null
NoUser == [id |-> "", monoPasswordHash |-> EmptyHash]
\* monoKey === null
NoKey == ""
\* A result that has not been produced yet.
NoRes == Err("not run")

\* AuthContext.verifyMonoKey(inputKey), called verifyMonoPassword by the
\* prompt, the Dashboard and Settings.
verifyMonoKey(inputKey) ==
  IF user = NoUser \/ user.monoPasswordHash = EmptyHash THEN FALSE
  ELSE SHA256(inputKey) = user.monoPasswordHash

(***************************************************************************)
(* The DatabaseService calls as steps on the remote store.                 *)
(***************************************************************************)
\* supabase.auth.getUser() answers no user.
NoSession == ""
\* No row (the update found nothing to decrypt).
NoRow == InsertedRow([user_id |-> "", account_name |-> "",
                      encrypted_data |-> <<>>, icon |-> ""], 0)
\* No DatabaseService call yet.
NoOp ==
  [op |-> "none", ok |-> FALSE, err |-> "", crypto |-> FALSE, key |-> NoKey,
   id |-> 0, partial |-> EmptyObj, before |-> NoRow, list |-> <<>>]
\* The remote store before any call.
StoreIdle ==
  /\ session = NoSession
  /\ rows = <<>>
  /\ clock = 0
  /\ payload = EmptyObj
  /\ sOp = NoOp

NotAuthenticated == "User not authenticated"
RemoteError == "remote error"

\* The remote store as a DatabaseService call finds it.
Store == [session |-> session, rows |-> rows, clock |-> clock, payload |-> payload]

\* What a DatabaseService call leaves: its outcome (op) and the store.
Left(st, op) ==
  [op |-> op, rows |-> st.rows, clock |-> st.clock, payload |-> st.payload]

\* DatabaseService.saveCredential(credential, monoPassword); r are the random
\* values of encrypt, remoteOk whether the insert succeeds.
DatabaseService_saveCredential(st, credential, monoPassword, r, remoteOk) ==
  LET call == [NoOp EXCEPT !.op = "save", !.key = monoPassword,
                           !.partial = credential]
      insert == saveCredentialPayload(st.session, credential, monoPassword, r)
  IN IF st.session = NoSession
     THEN Left(st, [call EXCEPT !.err = NotAuthenticated])
     ELSE IF ~remoteOk
     THEN [Left(st, [call EXCEPT !.err = RemoteError, !.crypto = TRUE])
             EXCEPT !.payload = insert]
     ELSE [op |-> [call EXCEPT !.ok = TRUE, !.crypto = TRUE, !.id = st.clock + 1],
           rows |-> Append(st.rows, InsertedRow(insert, st.clock + 1)),
           clock |-> st.clock + 1,
           payload |-> insert]

\* DatabaseService.getCredentials(monoPassword)
DatabaseService_getCredentialsCall(st, monoPassword, remoteOk) ==
  LET call == [NoOp EXCEPT !.op = "get", !.key = monoPassword]
  IN Left(st,
          IF st.session = NoSession THEN [call EXCEPT !.err = NotAuthenticated]
          ELSE IF ~remoteOk THEN [call EXCEPT !.err = RemoteError]
          ELSE [call EXCEPT
                  !.ok = TRUE,
                  !.crypto = SelectRows(st.rows, st.session) # <<>>,
                  !.list = DatabaseService_getCredentials(st.rows, st.session,
                                                          monoPassword)])

\* DatabaseService.updateCredential(id, credential, monoPassword): fetch the
\* row, decrypt and parse it (either may throw), merge, encrypt, update.
DatabaseService_updateCredential(st, id, credential, monoPassword, r, remoteOk) ==
  LET call == [NoOp EXCEPT !.op = "update", !.key = monoPassword, !.id = id,
                           !.partial = credential]
      found == MatchingRows(st.rows, id, st.session)
      currentCred == found[1]
      decrypted == decrypt(currentCred.encrypted_data, monoPassword)
      currentDecrypted == JSONparse(decrypted.val)
      fields == updateFields(credential, currentDecrypted.v, monoPassword, r)
  IN IF st.session = NoSession
     THEN Left(st, [call EXCEPT !.err = NotAuthenticated])
     ELSE IF Len(found) # 1
     THEN Left(st, [call EXCEPT !.err = RemoteError])
     ELSE IF ~decrypted.ok \/ ~currentDecrypted.ok
     THEN Left(st, [call EXCEPT !.err = IF decrypted.ok THEN "SyntaxError"
                                         ELSE DecryptError,
                                !.crypto = TRUE, !.before = currentCred])
     ELSE IF ~remoteOk
     THEN [Left(st, [call EXCEPT !.err = RemoteError, !.crypto = TRUE,
                                 !.before = currentCred])
             EXCEPT !.payload = fields]
     ELSE [op |-> [call EXCEPT !.ok = TRUE, !.crypto = TRUE,
                               !.before = currentCred],
           rows |-> [i \in 1..Len(st.rows) |->
                       IF st.rows[i].id = id /\ st.rows[i].user_id = st.session
                       THEN UpdatedRow(st.rows[i], fields, st.clock + 1)
                       ELSE st.rows[i]],
           clock |-> st.clock + 1,
           payload |-> fields]

\* DatabaseService.deleteCredential(id)
DatabaseService_deleteCredential(st, id, remoteOk) ==
  LET call == [NoOp EXCEPT !.op = "delete", !.id = id]
  IN IF st.session = NoSession
     THEN Left(st, [call EXCEPT !.err = NotAuthenticated])
     ELSE IF ~remoteOk
     THEN Left(st, [call EXCEPT !.err = RemoteError])
     ELSE [Left(st, [call EXCEPT !.ok = TRUE])
             EXCEPT !.rows = SelectSeq(st.rows, LAMBDA row :
                               ~(row.id = id /\ row.user_id = st.session))]

\* The store and the record of the call after a DatabaseService call.
Commit(left) ==
  /\ sOp' = left.op
  /\ rows' = left.rows
  /\ clock' = left.clock
  /\ payload' = left.payload

(***************************************************************************)
(* LocalStorageService (the local file) and the values of the session.     *)
(***************************************************************************)
\* LocalStorageService.FILE_VERSION
FILE_VERSION == "1.0.0"

\* user.email and `${user.firstName} ${user.lastName}` of an account.
EmailOf(uid) == <<"email", uid>>
NameOf(uid) == <<"name", uid>>

\* The owner tag of a file: an opaque function of the account's id and email.
OwnerTag(userId, userEmail) == <<"tag", userId, userEmail>>

\* No file (null); a file is its name and the parsed LocalFileData: version is
\* "" when the property is missing, isArray is Array.isArray(credentials) and
\* credentials the elements of that array (none when it is not one).
NoFile ==
  [name |-> "", version |-> "", ownerTag |-> <<>>, ownerName |-> <<>>,
   credentials |-> <<>>, isArray |-> TRUE, totalCredentials |-> 0]

\* LocalStorageService.verifyFileOwnership(file, userId, userEmail): compares
\* the file's owner tag with the tag of the account, without decrypting.
verifyFileOwnership(file, userId, userEmail) ==
  IF file.ownerTag = OwnerTag(userId, userEmail)
  THEN [isValid |-> TRUE, fileOwner |-> file.ownerName, error |-> ""]
  ELSE [isValid |-> FALSE, fileOwner |-> file.ownerName,
        error |-> "This file belongs to a different account"]

\* A pass of the loop that returns the password as the username.
decryptRecordSwapped(encCred, monoPassword) ==
  LET decryptedData == decrypt(encCred.encryptedData, monoPassword)
      sensitiveData == JSONparse(decryptedData.val)
  IN IF ~decryptedData.ok \/ ~sensitiveData.ok THEN <<>>
     ELSE <<[id |-> encCred.id,
             accountName |-> encCred.accountName,
             username |-> Prop(sensitiveData.v, "password"),
             password |-> Prop(sensitiveData.v, "password"),
             recoveryEmail |-> Prop(sensitiveData.v, "recoveryEmail"),
             recoveryMobile |-> Prop(sensitiveData.v, "recoveryMobile"),
             twoFactorCodes |-> Prop(sensitiveData.v, "twoFactorCodes"),
             icon |-> encCred.icon,
             createdAt |-> encCred.createdAt,
             updatedAt |-> encCred.updatedAt]>>

\* One pass of the loop of readLocalFile: the credential of a record, or
\* nothing when decrypt or JSON.parse throws.
decryptRecord(encCred, monoPassword) ==
  LET decryptedData == decrypt(encCred.encryptedData, monoPassword)
      sensitiveData == JSONparse(decryptedData.val)
  IN IF ~decryptedData.ok \/ ~sensitiveData.ok THEN <<>>
     ELSE <<[id |-> encCred.id,
             accountName |-> encCred.accountName,
             username |-> Prop(sensitiveData.v, "username"),
             password |-> Prop(sensitiveData.v, "password"),
             recoveryEmail |-> Prop(sensitiveData.v, "recoveryEmail"),
             recoveryMobile |-> Prop(sensitiveData.v, "recoveryMobile"),
             twoFactorCodes |-> Prop(sensitiveData.v, "twoFactorCodes"),
             icon |-> encCred.icon,
             createdAt |-> encCred.createdAt,
             updatedAt |-> encCred.updatedAt]>>

RECURSIVE decryptRecords(_, _)
decryptRecords(encCreds, monoPassword) ==
  IF encCreds = <<>> THEN <<>>
  ELSE decryptRecord(Head(encCreds), monoPassword)
         \o decryptRecords(Tail(encCreds), monoPassword)

InvalidFormat == "Invalid MonoKey file format"

\* LocalStorageService.readLocalFile(file, monoPassword): the credentials, or
\* the format error; crypto tells whether decrypt was called.
readLocalFile(file, monoPassword) ==
  IF file.version = "" \/ ~file.isArray
  THEN [ok |-> FALSE, err |-> InvalidFormat, list |-> <<>>, crypto |-> FALSE]
  ELSE [ok |-> TRUE, err |-> "",
        list |-> decryptRecords(file.credentials, monoPassword),
        crypto |-> file.credentials # <<>>]

\* readLocalFile(file, monoPassword, userId, userEmail), as the Dashboard
\* calls it: the ownership comparison first, then the reading above.
readLocalFileOwned(file, monoPassword, userId, userEmail) ==
  LET ownershipCheck == verifyFileOwnership(file, userId, userEmail)
  IN IF file.version # "" /\ ~ownershipCheck.isValid
     THEN [ok |-> FALSE, err |-> ownershipCheck.error, list |-> <<>>,
           crypto |-> FALSE]
     ELSE readLocalFile(file, monoPassword)

\* A prepareLocalFileData whose metadata counts the records that carry an icon.
prepareLocalFileDataIconCount(creds, monoPassword, r) ==
  [version |-> FILE_VERSION,
   credentials |->
     [i \in 1..Len(creds) |->
        [id |-> creds[i].id,
         accountName |-> creds[i].accountName,
         encryptedData |->
           encrypt(JSONstringify(sensitiveDataOf(creds[i])), monoPassword,
                   Draw((r.osalt + i - 1) % MaxDraw)),
         icon |-> creds[i].icon,
         createdAt |-> creds[i].createdAt,
         updatedAt |-> creds[i].updatedAt]],
   totalCredentials |-> Cardinality({i \in 1..Len(creds) : Truthy(creds[i].icon)})]

\* LocalStorageService.prepareLocalFileData(credentials, monoPassword): every
\* credential encrypted with random values of its own (r for the first, the
\* next draws for the following ones).
prepareLocalFileData(creds, monoPassword, r) ==
  [version |-> FILE_VERSION,
   credentials |->
     [i \in 1..Len(creds) |->
        [id |-> creds[i].id,
         accountName |-> creds[i].accountName,
         encryptedData |->
           encrypt(JSONstringify(sensitiveDataOf(creds[i])), monoPassword,
                   Draw((r.osalt + i - 1) % MaxDraw)),
         icon |-> creds[i].icon,
         createdAt |-> creds[i].createdAt,
         updatedAt |-> creds[i].updatedAt]],
   totalCredentials |-> Len(creds)]

\* The file downloadLocalFile(credentials, monoPassword, userId, userEmail,
\* userName, filename) hands to the browser: the data above with the owner's
\* tag and name.
downloadLocalFile(creds, monoPassword, userId, userEmail, userName, filename, r) ==
  LET fileData == prepareLocalFileData(creds, monoPassword, r)
  IN [name |-> filename, version |-> fileData.version,
      ownerTag |-> OwnerTag(userId, userEmail), ownerName |-> userName,
      credentials |-> fileData.credentials, isArray |-> TRUE,
      totalCredentials |-> fileData.totalCredentials]

\* LocalStorageService.createEmptyFileData()
createEmptyFileData ==
  [version |-> FILE_VERSION, credentials |-> <<>>, totalCredentials |-> 0]

\* LocalStorageService.addCredential(localCredentials, newCredential) at time now.
LocalStorageService_addCredential(creds, newCredential, now) ==
  Append(creds,
         newCredential @@ [n \in {"id", "createdAt", "updatedAt"} |->
                             IF n = "id" THEN 100 + now ELSE now])

\* An update that stamps every record of the list.
LocalStorageService_updateCredentialAll(creds, credentialId, updates, now) ==
  [i \in 1..Len(creds) |->
     IF creds[i].id = credentialId
     THEN [n \in DOMAIN creds[i] \cup DOMAIN updates |->
             IF n = "updatedAt" THEN now
             ELSE IF n \in DOMAIN updates THEN updates[n]
             ELSE creds[i][n]]
     ELSE [creds[i] EXCEPT !.updatedAt = now]]

\* LocalStorageService.updateCredential(localCredentials, credentialId, updates)
LocalStorageService_updateCredential(creds, credentialId, updates, now) ==
  [i \in 1..Len(creds) |->
     IF creds[i].id = credentialId
     THEN [n \in DOMAIN creds[i] \cup DOMAIN updates |->
             IF n = "updatedAt" THEN now
             ELSE IF n \in DOMAIN updates THEN updates[n]
             ELSE creds[i][n]]
     ELSE creds[i]]

\* LocalStorageService.deleteCredential(localCredentials, credentialId)
LocalStorageService_deleteCredential(creds, credentialId) ==
  SelectSeq(creds, LAMBDA cred : cred.id # credentialId)

\* No row of user_profiles for the account.
NoProfile == <<"none">>
\* pendingAction === null
NoAction == [type |-> "none", file |-> NoFile]
\* The last handler was none of those lastCall records.
NoCall == [op |-> "none", err |-> "", crypto |-> FALSE, file |-> NoFile]

\* The Dashboard (and its prompt) as mounted: the initial values of its state.
DashboardInit ==
  [credentials |-> <<>>, storageLocation |-> "saas", nextStorageLocation |-> "",
   localCredentials |-> <<>>, isLocalFileActive |-> FALSE,
   hasUnsavedChanges |-> FALSE, selectedLocalFile |-> NoFile,
   fileOwnerInfo |-> <<>>, pendingAction |-> NoAction,
   isMonoPasswordPromptOpen |-> FALSE, attempts |-> 0]

\* The Dashboard's state as one record, and its assignment.
Dashboard ==
  [credentials |-> dashboardCredentials, storageLocation |-> storageLocation,
   nextStorageLocation |-> nextStorageLocation,
   localCredentials |-> localCredentials,
   isLocalFileActive |-> isLocalFileActive,
   hasUnsavedChanges |-> hasUnsavedChanges,
   selectedLocalFile |-> selectedLocalFile, fileOwnerInfo |-> fileOwnerInfo,
   pendingAction |-> pendingAction,
   isMonoPasswordPromptOpen |-> isMonoPasswordPromptOpen,
   attempts |-> attempts]

SetDashboard(d) ==
  /\ dashboardCredentials' = d.credentials
  /\ storageLocation' = d.storageLocation
  /\ nextStorageLocation' = d.nextStorageLocation
  /\ localCredentials' = d.localCredentials
  /\ isLocalFileActive' = d.isLocalFileActive
  /\ hasUnsavedChanges' = d.hasUnsavedChanges
  /\ selectedLocalFile' = d.selectedLocalFile
  /\ fileOwnerInfo' = d.fileOwnerInfo
  /\ pendingAction' = d.pendingAction
  /\ isMonoPasswordPromptOpen' = d.isMonoPasswordPromptOpen
  /\ attempts' = d.attempts

\* Nobody signed in, nothing mounted, no account and nothing stored.
UiIdle ==
  /\ page = "login"
  /\ credentials = <<>> /\ hasLoadedCredentials = FALSE
  /\ dashboardCredentials = DashboardInit.credentials
  /\ storageLocation = DashboardInit.storageLocation
  /\ nextStorageLocation = DashboardInit.nextStorageLocation
  /\ localCredentials = DashboardInit.localCredentials
  /\ isLocalFileActive = DashboardInit.isLocalFileActive
  /\ hasUnsavedChanges = DashboardInit.hasUnsavedChanges
  /\ selectedLocalFile = DashboardInit.selectedLocalFile
  /\ fileOwnerInfo = DashboardInit.fileOwnerInfo
  /\ pendingAction = DashboardInit.pendingAction
  /\ isMonoPasswordPromptOpen = DashboardInit.isMonoPasswordPromptOpen
  /\ attempts = DashboardInit.attempts
  /\ profiles = [u \in Users |-> NoProfile]
  /\ browserStorage = {}
  /\ download = NoFile
  /\ lastCall = NoCall

(***************************************************************************)
(* SpecStore: DatabaseService called with every key, credential and update *)
(* below, by a signed-in user.                                             *)
(***************************************************************************)
\* The sensitive data of a credential, as the forms submit it.
Sensitive(u, p, re, rm, tf) ==
  [username |-> u, password |-> p, recoveryEmail |-> re,
   recoveryMobile |-> rm, twoFactorCodes |-> tf]
\* Credentials as CredentialForm.onSubmit hands them over: every field a string.
FormInputs ==
  {[accountName |-> "Example", icon |-> "mail"]
     @@ Sensitive("a@b.com", "p@ss", "", "", ""),
   [accountName |-> "Bank", icon |-> ""]
     @@ Sensitive("bob", "s3cret", "r@b.com", "555", "c0de")}

\* Updates: one field only, an edit that clears fields, a rename.
Partials ==
  {[username |-> "new@b.com"],
   [accountName |-> "Bank", icon |-> "mail"]
     @@ Sensitive("bob", "s3cret", "", "", ""),
   [accountName |-> "Renamed"]}

\* What the session's forms submit, and the random values its encryptions draw.
SessionForms ==
  {[accountName |-> "Bank", icon |-> ""]
     @@ Sensitive("bob", "s3cret", "r@b.com", "555", "c0de")}
SessionPartials ==
  {[accountName |-> "Bank", icon |-> "mail"]
     @@ Sensitive("bob", "s3cret", "", "", "")}
SessionDraws == {Draw(MaxDraw - 1)}

InitStore ==
  /\ cP = EmptyText /\ cS1 = "monokey-1" /\ cS2 = "monokey-1" /\ cEnv = <<>> /\ cRes = NoRes
  /\ cHash = "none" /\ cVerify = "none" /\ cPc = "start" /\ encCalls = <<>> /\ SideIdle
  /\ user = NoUser /\ monoKey = NoKey
  /\ isAuthenticated = FALSE /\ isMonoKeyVerified = FALSE
  /\ UiIdle
  /\ session = "uA"
  /\ rows = <<>> /\ clock = 0 /\ payload = EmptyObj /\ sOp = NoOp

StoreSave ==
  /\ Len(rows) < MaxRows /\ clock < MaxClock
  /\ \E credential \in FormInputs, key \in Secrets, r \in RandomDraws,
        remoteOk \in BOOLEAN :
       Commit(DatabaseService_saveCredential(Store, credential, key, r, remoteOk))
  /\ UNCHANGED <<sideVars, cryptoVars, authVars, uiVars, session>>

StoreGet ==
  /\ \E key \in Secrets, remoteOk \in BOOLEAN :
       Commit(DatabaseService_getCredentialsCall(Store, key, remoteOk))
  /\ UNCHANGED <<sideVars, cryptoVars, authVars, uiVars, session>>

StoreUpdate ==
  /\ clock < MaxClock
  /\ \E id \in 1..MaxClock, credential \in Partials, key \in Secrets,
        r \in RandomDraws, remoteOk \in BOOLEAN :
       Commit(DatabaseService_updateCredential(Store, id, credential, key, r,
                                               remoteOk))
  /\ UNCHANGED <<sideVars, cryptoVars, authVars, uiVars, session>>

StoreDelete ==
  /\ \E id \in 1..MaxClock, remoteOk \in BOOLEAN :
       Commit(DatabaseService_deleteCredential(Store, id, remoteOk))
  /\ UNCHANGED <<sideVars, cryptoVars, authVars, uiVars, session>>

NextStore == StoreSave \/ StoreGet \/ StoreUpdate \/ StoreDelete

SpecStore == InitStore /\ [][NextStore]_vars

\* The sensitive values the inputs carry (the empty string and undefined are
\* no information).
SensitiveValues ==
  {Prop(c, n) : c \in FormInputs \cup Partials, n \in SensitiveFields}
    \ {"", UNDEF}

\* The envelope is one encrypt made under monoPassword: three parts, the
\* third a ciphertext under the key derived from the first.
MadeUnder(encryptedData, monoPassword) ==
  LET parts == Split(encryptedData)
  IN /\ Len(parts) = 3
     /\ Len(parts[3]) = 1
     /\ parts[3][1].t = "b64"
     /\ parts[3][1].c.key = deriveKey(monoPassword, parts[1])

\* The sensitive data inside an envelope made under monoPassword.
Inside(encryptedData, monoPassword) ==
  JSONparse(decrypt(encryptedData, monoPassword).val).v

\* C4: what saveCredential and updateCredential hand to the table has no
\* column besides user_id, account_name, encrypted_data and icon, shows no
\* sensitive value in a plaintext column, and holds the sensitive fields of the
\* call inside encrypted_data; the rows of the table have no other column
\* either (id and the timestamps are the table's own).
SensitiveOnlyEncrypted ==
  /\ DOMAIN payload \subseteq {"user_id", "account_name", "encrypted_data", "icon"}
  /\ \A c \in DOMAIN payload \ {"encrypted_data"} : payload[c] \notin SensitiveValues
  /\ \A i \in 1..Len(rows) :
       /\ DOMAIN rows[i] = {"id", "user_id", "account_name", "encrypted_data",
                            "icon", "created_at", "updated_at"}
       /\ \A c \in {"user_id", "account_name", "icon"} :
            rows[i][c] \notin SensitiveValues
  /\ (sOp.op = "save" /\ sOp.ok) =>
       /\ DOMAIN payload = {"user_id", "account_name", "encrypted_data", "icon"}
       /\ MadeUnder(payload.encrypted_data, sOp.key)
       /\ decrypt(payload.encrypted_data, sOp.key)
            = Ok(JSONstringify(sensitiveDataOf(sOp.partial)))
  /\ (sOp.op = "update" /\ sOp.ok) =>
       /\ "encrypted_data" \in DOMAIN payload
       /\ MadeUnder(payload.encrypted_data, sOp.key)
       /\ \A n \in SensitiveFields :
            Truthy(Prop(sOp.partial, n)) =>
              Prop(Inside(payload.encrypted_data, sOp.key), n) = sOp.partial[n]

\* An update that also renamed the account has been written, after a save.
SensitiveOnlyEncryptedWitness ==
  /\ sOp.op = "update" /\ sOp.ok
  /\ "account_name" \in DOMAIN payload
  /\ Truthy(Prop(sOp.partial, "password"))
  /\ Len(rows) = 1

\* The ids of a list of credentials or rows, in order.
Ids(list) == [i \in 1..Len(list) |-> list[i].id]

\* C8 (remote listing): a listing that the store answers succeeds and returns
\* exactly the rows whose envelope was made under the supplied key, newest
\* first, whatever the other rows hold.
PartialFailureIsolation ==
  (sOp.op = "get" /\ sOp.err # RemoteError) =>
    /\ sOp.ok
    /\ Ids(sOp.list) =
         Ids(SelectSeq(SelectRows(rows, session),
                       LAMBDA row : MadeUnder(row.encrypted_data, sOp.key)))

\* C9: after a successful update every sensitive field the update supplied has
\* the supplied value and every other one the value stored before.
MergeOnUpdate ==
  (sOp.op = "update" /\ sOp.ok /\ MadeUnder(sOp.before.encrypted_data, sOp.key)) =>
    LET before == Inside(sOp.before.encrypted_data, sOp.key)
        now == MatchingRows(rows, sOp.id, session)[1]
        after == Inside(now.encrypted_data, sOp.key)
    IN \A n \in SensitiveFields :
         Prop(after, n) = IF Prop(sOp.partial, n) # UNDEF THEN sOp.partial[n]
                          ELSE Prop(before, n)

\* C23: an update whose key is not the one the row's envelope was made under
\* throws and leaves the row (envelope, account name, icon) as it was.
UpdateFatalOnWrongKey ==
  (/\ sOp.op = "update" /\ sOp.before # NoRow
   /\ ~MadeUnder(sOp.before.encrypted_data, sOp.key)) =>
     /\ ~sOp.ok
     /\ MatchingRows(rows, sOp.id, session) = <<sOp.before>>

(***************************************************************************)
(* The session: AuthContext, CredentialContext, the Dashboard with its     *)
(* MonoPasswordPrompt, and Settings, over the remote store and local       *)
(* files.  React effects run with the handler whose state change triggers  *)
(* them.                                                                   *)
(***************************************************************************)
\* The least length the setup and change forms accept.
MIN_LENGTH == 8
\* A master key too short for the forms.
ShortSecret == "short"

\* The AuthContext state as one record, and its assignment.
Auth ==
  [user |-> user, monoKey |-> monoKey, isAuthenticated |-> isAuthenticated,
   isMonoKeyVerified |-> isMonoKeyVerified]
SetAuth(a) ==
  /\ user' = a.user
  /\ monoKey' = a.monoKey
  /\ isAuthenticated' = a.isAuthenticated
  /\ isMonoKeyVerified' = a.isMonoKeyVerified
\* A clearing that leaves the master key in memory.
ClearedKeepsKey ==
  [user |-> NoUser, monoKey |-> monoKey, isAuthenticated |-> FALSE,
   isMonoKeyVerified |-> isMonoKeyVerified]
\* setUser(null); setIsAuthenticated(false); setMonoKeyState(null);
\* setIsMonoKeyVerified(false)
Cleared ==
  [user |-> NoUser, monoKey |-> NoKey, isAuthenticated |-> FALSE,
   isMonoKeyVerified |-> FALSE]

\* AuthContext.fetchUserProfile: the profile row of the account, null (NoUser)
\* when the query fails or finds none.
fetchUserProfile(table, uid, ok) ==
  IF ok /\ uid \in DOMAIN table /\ table[uid] # NoProfile
  THEN [id |-> uid, monoPasswordHash |-> table[uid]]
  ELSE NoUser

\* A SignedIn that sets the user and forgets setIsAuthenticated(true).
SignedInUserOnly(a, userProfile) ==
  IF userProfile # NoUser THEN [a EXCEPT !.user = userProfile] ELSE Cleared

\* setUser(userProfile); setIsAuthenticated(true), or the clearing when the
\* profile could not be fetched (SIGNED_IN handler and refreshUser).
SignedIn(a, userProfile) ==
  IF userProfile # NoUser
  THEN [a EXCEPT !.user = userProfile, !.isAuthenticated = TRUE]
  ELSE Cleared

\* The item supabase-js keeps in localStorage for a session (persistSession).
SessionToken(uid) == [key |-> "sb-auth-token", sub |-> uid]
\* authService.clearSession(): removes every item whose key starts with "sb-"
\* or mentions supabase.
clearSession(storage) == {item \in storage : item.key # "sb-auth-token"}

\* The list a loadCredentials of the Dashboard or of the context leaves: the
\* answer (got) of getCredentials, or the list it had when the call throws.
LoadedList(got, current) == IF got.ok THEN got.list ELSE current

\* The Dashboard effect on [user, monoPassword, authLoading, storageLocation]:
\* the setup dialog for an account without hash, else (cloud storage) the
\* prompt when no key is held and loadCredentials when one is.
DashboardLoads(a, d, changed) ==
  /\ changed /\ a.user # NoUser /\ a.user.monoPasswordHash # EmptyHash
  /\ d.storageLocation = "saas" /\ a.monoKey # NoKey
DashboardEffect(a, d, got, changed) ==
  IF ~changed \/ a.user = NoUser \/ a.user.monoPasswordHash = EmptyHash
     \/ d.storageLocation # "saas"
  THEN d
  ELSE IF a.monoKey = NoKey THEN [d EXCEPT !.isMonoPasswordPromptOpen = TRUE]
  ELSE [d EXCEPT !.credentials = LoadedList(got, @)]

\* The Dashboard effect on [localCredentials, storageLocation,
\* isLocalFileActive, monoPassword, user]: marks the local session unsaved.
UnsavedEffect(a, d, changed) ==
  IF /\ changed /\ d.storageLocation = "local" /\ d.isLocalFileActive
     /\ Len(d.localCredentials) > 0 /\ a.monoKey # NoKey /\ a.user # NoUser
  THEN [d EXCEPT !.hasUnsavedChanges = TRUE]
  ELSE d

\* The CredentialContext effect on [user?.id, !!monoKey, isInitialLoading]:
\* a change of user empties the list; then the list is loaded when a user and
\* a key are there and the render that ran the effect had not loaded yet.
ContextAutoLoads(a) ==
  /\ (user.id # a.user.id \/ (monoKey # NoKey) # (a.monoKey # NoKey))
  /\ a.user # NoUser /\ a.monoKey # NoKey /\ ~hasLoadedCredentials
ContextEffect(a, c, got) ==
  IF ContextAutoLoads(a) /\ got.ok
  THEN [credentials |-> got.list, hasLoadedCredentials |-> TRUE]
  ELSE IF user.id # a.user.id
  THEN [credentials |-> <<>>, hasLoadedCredentials |-> FALSE]
  ELSE c

\* The CredentialContext state as one record.
Context ==
  [credentials |-> credentials, hasLoadedCredentials |-> hasLoadedCredentials]

\* The effects that follow a handler, given the answer (got) a getCredentials
\* of theirs receives.
Effects(a, pg, d, c, st, userSet, localSet, got, call) ==
  \E mounted \in {a.isAuthenticated /\ pg = "dashboard"},
     wasMounted \in {isAuthenticated /\ page = "dashboard"} :
    \E d1 \in {IF mounted /\ wasMounted THEN d ELSE DashboardInit} :
      \E changedA \in {\/ ~wasMounted \/ userSet \/ a.monoKey # monoKey
                       \/ d1.storageLocation # storageLocation} :
        \E changedU \in {\/ changedA \/ localSet
                         \/ d1.isLocalFileActive # isLocalFileActive} :
          /\ SetAuth(a)
          /\ page' = pg
          /\ SetDashboard(IF mounted
                          THEN UnsavedEffect(a, DashboardEffect(a, d1, got,
                                                                changedA),
                                             changedU)
                          ELSE d1)
          /\ \E c2 \in {ContextEffect(a, c, got)} :
               /\ credentials' = c2.credentials
               /\ hasLoadedCredentials' = c2.hasLoadedCredentials
          /\ session' = st.session
          /\ rows' = st.rows
          /\ clock' = st.clock
          /\ lastCall' = call
          /\ UNCHANGED <<sideVars, cryptoVars, sOp, payload>>

\* The state a handler leaves, with the effects its changes trigger:
\*   a, pg   the AuthContext state and the page after the handler
\*   d, c    the Dashboard and CredentialContext state after the handler
\*   st      the remote store after the handler
\*   userSet, localSet  whether it called setUser / setLocalCredentials (a new
\*           object, which the effects' dependency comparison sees as changed)
\*   remoteOk  whether the loads of the effects are answered
\*   call    the record of the handler
Finish(a0, pg, d0, c0, st0, userSet, localSet, remoteOk, call0) ==
  \E a \in {a0}, d \in {d0}, c \in {c0}, st \in {st0}, call \in {call0} :
    \E got \in {DatabaseService_getCredentialsCall(st, a.monoKey, remoteOk).op} :
      Effects(a, pg, d, c, st, userSet, localSet, got, call)

\* The record of a handler that ran.
Call(op, err, crypto, file) ==
  [op |-> op, err |-> err, crypto |-> crypto, file |-> file]
\* The store a DatabaseService call left, with the session.
After(left) ==
  [session |-> session, rows |-> left.rows, clock |-> left.clock,
   payload |-> left.payload]

\* Register.onSubmit and AuthContext.signUp: the form hashes the master key,
\* the trigger on auth.users writes the profile row, the profile is fetched.
SignUp ==
  /\ user = NoUser /\ session = NoSession
  /\ \E uid \in Users, k \in Secrets, profileOk \in BOOLEAN :
       /\ profiles[uid] = NoProfile
       /\ LET table == [profiles EXCEPT ![uid] = hashPassword(k)]
              userProfile == fetchUserProfile(table, uid, profileOk)
          IN /\ profiles' = table
             /\ browserStorage' = browserStorage \cup {SessionToken(uid)}
             /\ Finish(SignedIn(Auth, userProfile),
                       IF userProfile # NoUser THEN "dashboard" ELSE page,
                       Dashboard, Context, [Store EXCEPT !.session = uid],
                       userProfile # NoUser, FALSE, TRUE,
                       NoCall)
  /\ UNCHANGED download

\* AuthContext.signIn and the SIGNED_IN handler it triggers.
SignIn ==
  /\ user = NoUser /\ session = NoSession
  /\ \E uid \in Users, profileOk \in BOOLEAN :
       /\ profiles[uid] # NoProfile
       /\ LET userProfile == fetchUserProfile(profiles, uid, profileOk)
          IN /\ browserStorage' = browserStorage \cup {SessionToken(uid)}
             /\ Finish(SignedIn(Auth, userProfile),
                       IF userProfile # NoUser THEN "dashboard" ELSE page,
                       Dashboard, Context, [Store EXCEPT !.session = uid],
                       userProfile # NoUser, FALSE, TRUE,
                       NoCall)
  /\ UNCHANGED <<profiles, download>>

\* The SIGNED_IN handler of onAuthStateChange for the session there is
\* (supabase-js fires the event again, e.g. when the tab regains focus): the
\* profile is fetched again and the master key is left as it is.
AuthStateSignedIn ==
  /\ session # NoSession
  /\ \E profileOk \in BOOLEAN :
       LET userProfile == fetchUserProfile(profiles, session, profileOk)
       IN Finish(SignedIn(Auth, userProfile),
                 IF userProfile = NoUser THEN "login"
                 ELSE IF page = "login" THEN "dashboard" ELSE page,
                 Dashboard, Context, Store, userProfile # NoUser, FALSE,
                 TRUE, NoCall)
  /\ UNCHANGED mediaVars

\* AuthContext.signOut
SignOut ==
  /\ session # NoSession \/ user # NoUser
  /\ browserStorage' = clearSession(browserStorage)
  /\ Finish(Cleared, "login", Dashboard, Context,
            [Store EXCEPT !.session = NoSession], TRUE, FALSE, TRUE,
            NoCall)
  /\ UNCHANGED <<profiles, download>>

\* The router: from the Dashboard to Settings and back.
Navigate ==
  /\ isAuthenticated
  /\ Finish(Auth, IF page = "dashboard" THEN "settings" ELSE "dashboard",
            Dashboard, Context, Store, FALSE, FALSE, TRUE,
            NoCall)
  /\ UNCHANGED mediaVars

\* Dashboard.handleMonoPasswordSetup, for the setup dialog the effect opens
\* when the account has no hash: store the hash, refreshUser, setMonoPassword.
handleMonoPasswordSetup ==
  /\ isAuthenticated /\ page = "dashboard"
  /\ user # NoUser /\ user.monoPasswordHash = EmptyHash
  /\ \E k \in Secrets \cup {ShortSecret}, remoteOk \in BOOLEAN,
        refreshOk \in BOOLEAN :
       IF Len(k) < MIN_LENGTH
       THEN /\ Finish(Auth, page, Dashboard, Context, Store, FALSE, FALSE,
                      TRUE,
                      NoCall)
            /\ UNCHANGED mediaVars
       ELSE IF session = NoSession \/ ~remoteOk
       THEN /\ Finish(Auth, page, Dashboard, Context, Store, FALSE, FALSE,
                      TRUE,
                      NoCall)
            /\ UNCHANGED mediaVars
       ELSE LET table == updateMonoPasswordHash(profiles, session,
                                               hashPassword(k))
                refreshed == SignedIn(Auth, fetchUserProfile(table, session,
                                                             refreshOk))
                a == [refreshed EXCEPT !.monoKey = k, !.isMonoKeyVerified = TRUE]
            IN /\ profiles' = table
               /\ Finish(a, IF a.isAuthenticated THEN page ELSE "login",
                         Dashboard, Context, Store, TRUE, FALSE, remoteOk,
                         NoCall)
               /\ UNCHANGED <<browserStorage, download>>

\* Settings.handleChangeMonoPassword: the current key is verified against the
\* hash in the context, the hash of the new one is stored in the profile row.
handleChangeMonoPassword ==
  /\ isAuthenticated /\ page = "settings"
  /\ \E currentMonoPassword \in Secrets,
        newMonoPassword \in Secrets \cup {ShortSecret}, remoteOk \in BOOLEAN :
       LET err == IF Len(newMonoPassword) < MIN_LENGTH
                  THEN "MonoPassword must be at least 8 characters"
                  ELSE IF ~verifyMonoKey(currentMonoPassword)
                  THEN "Current MonoPassword is incorrect"
                  ELSE IF session = NoSession \/ ~remoteOk
                  THEN "Failed to update MonoPassword"
                  ELSE ""
       IN /\ profiles' = IF err = ""
                         THEN updateMonoPasswordHash(profiles, session,
                                   hashPassword(newMonoPassword))
                         ELSE profiles
          /\ Finish(Auth, page, Dashboard, Context, Store, FALSE, FALSE,
                    TRUE, NoCall)
  /\ UNCHANGED <<browserStorage, download>>

\* Dashboard.loadLocalFile(file, password): the Dashboard after it.
loadLocalFile(d, file, password) ==
  LET read == readLocalFileOwned(file, password, user.id, EmailOf(user.id))
  IN IF user = NoUser THEN d
     ELSE IF read.ok
     THEN [d EXCEPT !.localCredentials = read.list, !.selectedLocalFile = file,
                    !.isLocalFileActive = TRUE, !.hasUnsavedChanges = FALSE]
     ELSE [d EXCEPT !.selectedLocalFile = NoFile, !.fileOwnerInfo = <<>>,
                    !.isLocalFileActive = FALSE]

\* MonoPasswordPrompt.handleSubmit with the Dashboard's onVerified
\* (handleMonoPasswordVerified) and onClose.
handleSubmit ==
  /\ isAuthenticated /\ page = "dashboard" /\ isMonoPasswordPromptOpen
  /\ \E password \in Secrets, remoteOk \in BOOLEAN :
       IF verifyMonoKey(password)
       THEN LET closed == [Dashboard EXCEPT !.isMonoPasswordPromptOpen = FALSE,
                                            !.attempts = 0]
                file == pendingAction.file
                read == readLocalFileOwned(file, password, user.id,
                                           EmailOf(user.id))
                d == IF pendingAction.type = "loadLocal"
                     THEN [loadLocalFile(closed, file, password)
                             EXCEPT !.pendingAction = NoAction]
                     ELSE IF storageLocation = "saas" /\ monoKey # NoKey
                     THEN [closed EXCEPT !.credentials =
                             LoadedList(DatabaseService_getCredentialsCall(
                                          Store, monoKey, remoteOk).op, @)]
                     ELSE closed
            IN Finish([Auth EXCEPT !.monoKey = password,
                                   !.isMonoKeyVerified = TRUE],
                      page, d, Context, Store,
                      FALSE, pendingAction.type = "loadLocal", remoteOk,
                      IF pendingAction.type = "loadLocal"
                      THEN Call("handleMonoPasswordVerified", read.err,
                                read.crypto, file)
                      ELSE Call("handleMonoPasswordVerified", "", FALSE, NoFile))
       ELSE /\ attempts < MaxAttempts
            /\ Finish(Auth, page,
                      [Dashboard EXCEPT
                         !.attempts = @ + 1,
                         !.isMonoPasswordPromptOpen =
                           IF attempts >= 2 THEN FALSE ELSE @],
                      Context, Store, FALSE, FALSE, TRUE,
                      NoCall)
  /\ UNCHANGED mediaVars

\* MonoPasswordPrompt.handleClose with the Dashboard's onClose.
handleClose ==
  /\ isAuthenticated /\ page = "dashboard" /\ isMonoPasswordPromptOpen
  /\ Finish(Auth, page,
            [Dashboard EXCEPT !.attempts = 0, !.isMonoPasswordPromptOpen = FALSE],
            Context, Store, FALSE, FALSE, TRUE,
            NoCall)
  /\ UNCHANGED mediaVars

MonoKeyRequired == "MonoKey required"

\* CredentialContext.loadCredentials()
loadCredentials ==
  /\ \E remoteOk \in BOOLEAN :
       LET left == DatabaseService_getCredentialsCall(Store, monoKey, remoteOk)
       IN IF monoKey = NoKey
          THEN Finish(Auth, page, Dashboard, Context, Store, FALSE, FALSE,
                      TRUE, Call("loadCredentials", "", FALSE, NoFile))
          ELSE Finish(Auth, page, Dashboard,
                      IF left.op.ok
                      THEN [credentials |-> left.op.list,
                            hasLoadedCredentials |-> TRUE]
                      ELSE Context,
                      Store, FALSE, FALSE, TRUE,
                      Call("loadCredentials",
                           IF left.op.ok THEN "" ELSE "Failed to load credentials",
                           left.op.crypto, NoFile))
  /\ UNCHANGED mediaVars

\* CredentialContext.addCredential(credentialData): DatabaseService.saveCredential
\* of database.ts resolves to undefined, so reading savedCredential.id throws a
\* TypeError after the row was inserted.
addCredential ==
  /\ monoKey = NoKey \/ (Len(rows) < MaxRows /\ clock < MaxClock)
  /\ \E credentialData \in SessionForms, r \in SessionDraws,
        remoteOk \in BOOLEAN :
       LET left == DatabaseService_saveCredential(Store, credentialData, monoKey,
                                                  r, remoteOk)
       IN IF monoKey = NoKey
          THEN Finish(Auth, page, Dashboard, Context, Store, FALSE, FALSE,
                      TRUE, Call("addCredential", MonoKeyRequired, FALSE, NoFile))
          ELSE Finish(Auth, page, Dashboard, Context, After(left),
                      FALSE, FALSE, TRUE,
                      Call("addCredential",
                           IF left.op.ok THEN "TypeError" ELSE left.op.err,
                           left.op.crypto, NoFile))
  /\ UNCHANGED mediaVars

\* CredentialContext.updateCredential(id, credentialData)
updateCredential ==
  /\ monoKey = NoKey \/ clock < MaxClock
  /\ \E id \in 1..MaxClock, credentialData \in SessionPartials,
        r \in SessionDraws, remoteOk \in BOOLEAN :
       LET left == DatabaseService_updateCredential(Store, id, credentialData,
                                                    monoKey, r, remoteOk)
           merged == [i \in 1..Len(credentials) |->
                        IF credentials[i].id = id
                        THEN [n \in DOMAIN credentials[i] |->
                                IF n = "updatedAt" THEN left.clock
                                ELSE IF n \in DOMAIN credentialData
                                THEN credentialData[n]
                                ELSE credentials[i][n]]
                        ELSE credentials[i]]
       IN IF monoKey = NoKey
          THEN Finish(Auth, page, Dashboard, Context, Store, FALSE, FALSE,
                      TRUE,
                      Call("updateCredential", MonoKeyRequired, FALSE, NoFile))
          ELSE Finish(Auth, page, Dashboard,
                      IF left.op.ok THEN [Context EXCEPT !.credentials = merged]
                      ELSE Context,
                      After(left), FALSE, FALSE, TRUE,
                      Call("updateCredential", left.op.err, left.op.crypto,
                           NoFile))
  /\ UNCHANGED mediaVars

\* CredentialContext.removeCredential(id)
removeCredential ==
  /\ \E id \in 1..MaxClock, remoteOk \in BOOLEAN :
       LET left == DatabaseService_deleteCredential(Store, id, remoteOk)
       IN Finish(Auth, page, Dashboard,
                 IF left.op.ok
                 THEN [Context EXCEPT !.credentials =
                         SelectSeq(@, LAMBDA cred : cred.id # id)]
                 ELSE Context,
                 After(left), FALSE, FALSE, TRUE,
                 Call("removeCredential", left.op.err, FALSE, NoFile))
  /\ UNCHANGED mediaVars

\* Dashboard.finalizeStorageSwitch(newLocation): the Dashboard after it.
finalizeStorageSwitch(d, newLocation) ==
  [d EXCEPT !.storageLocation = newLocation, !.hasUnsavedChanges = FALSE,
            !.selectedLocalFile = NoFile, !.localCredentials = <<>>,
            !.isLocalFileActive = FALSE, !.fileOwnerInfo = <<>>,
            !.isMonoPasswordPromptOpen =
              IF newLocation = "saas" /\ user # NoUser /\ monoKey = NoKey
              THEN TRUE ELSE @]

\* Dashboard.handleStorageLocationChange(newLocation)
handleStorageLocationChange ==
  /\ isAuthenticated /\ page = "dashboard"
  /\ \E newLocation \in {"saas", "local"} :
       Finish(Auth, page,
              IF storageLocation = "local" /\ hasUnsavedChanges
                 /\ newLocation # "local"
              THEN [Dashboard EXCEPT !.nextStorageLocation = newLocation]
              ELSE finalizeStorageSwitch(Dashboard, newLocation),
              Context, Store, FALSE, TRUE, TRUE,
              Call("handleStorageLocationChange", "", FALSE, NoFile))
  /\ UNCHANGED mediaVars

\* Dashboard.handleConfirmDiscardAndSwitch
handleConfirmDiscardAndSwitch ==
  /\ isAuthenticated /\ page = "dashboard" /\ nextStorageLocation # ""
  /\ Finish(Auth, page,
            [finalizeStorageSwitch(Dashboard, nextStorageLocation)
               EXCEPT !.nextStorageLocation = ""],
            Context, Store, FALSE, TRUE, TRUE,
            NoCall)
  /\ UNCHANGED mediaVars

\* The files a user can pick: one written for each owner (a record under
\* the first master key), and the file last downloaded.
SampleFile(uid) ==
  downloadLocalFile(
    LocalStorageService_addCredential(
      <<>>, CHOOSE credentialData \in SessionForms : TRUE, 0),
    "monokey-1", uid, EmailOf(uid), NameOf(uid), "sample", Draw(0))
SelectableFiles ==
  {SampleFile(uid) : uid \in Owners} \cup ({download} \ {NoFile})

\* A handleFileSelect that queues the load whatever the ownership check says.
handleFileSelectUngated ==
  /\ isAuthenticated /\ page = "dashboard"
  /\ storageLocation = "local" /\ ~isLocalFileActive
  /\ \E file \in SelectableFiles :
       Finish(Auth, page,
              [Dashboard EXCEPT
                 !.fileOwnerInfo = file.ownerName,
                 !.pendingAction = [type |-> "loadLocal", file |-> file],
                 !.isMonoPasswordPromptOpen = TRUE],
              Context, Store, FALSE, FALSE, TRUE,
              Call("handleFileSelect", "", FALSE, file))
  /\ UNCHANGED mediaVars

\* Dashboard.handleFileSelect, for a file the input accepts (the input is shown
\* for local storage and disabled while a local file is active).
handleFileSelect ==
  /\ isAuthenticated /\ page = "dashboard"
  /\ storageLocation = "local" /\ ~isLocalFileActive
  /\ \E file \in SelectableFiles :
       LET ownershipCheck ==
             verifyFileOwnership(file, user.id, EmailOf(user.id))
       IN IF user = NoUser
          THEN Finish(Auth, page, Dashboard, Context, Store, FALSE, FALSE,
                      TRUE, Call("handleFileSelect",
                                 "User authentication required", FALSE, file))
          ELSE IF ~ownershipCheck.isValid
          THEN Finish(Auth, page, Dashboard, Context, Store, FALSE, FALSE,
                      TRUE, Call("handleFileSelect", ownershipCheck.error, FALSE,
                                 file))
          ELSE Finish(Auth, page,
                      [Dashboard EXCEPT
                         !.fileOwnerInfo = ownershipCheck.fileOwner,
                         !.pendingAction = [type |-> "loadLocal", file |-> file],
                         !.isMonoPasswordPromptOpen = TRUE],
                      Context, Store, FALSE, FALSE, TRUE,
                      Call("handleFileSelect", "", FALSE, file))
  /\ UNCHANGED mediaVars

\* Dashboard.handleCreateNewFile (its button is enabled with a key held and no
\* local file active).
handleCreateNewFile ==
  /\ isAuthenticated /\ page = "dashboard" /\ storageLocation = "local"
  /\ monoKey # NoKey /\ ~isLocalFileActive
  /\ Finish(Auth, page,
            IF user = NoUser THEN Dashboard
            ELSE [Dashboard EXCEPT
                    !.selectedLocalFile = NoFile, !.localCredentials = <<>>,
                    !.isLocalFileActive = TRUE, !.hasUnsavedChanges = FALSE,
                    !.fileOwnerInfo = NameOf(user.id)],
            Context, Store, FALSE, TRUE, TRUE,
            NoCall)
  /\ UNCHANGED mediaVars

\* Dashboard.handleSaveCredential for local storage (the form opens once a
\* local file is active): a new credential, or an edit of the one selected.
handleSaveCredential ==
  /\ isAuthenticated /\ page = "dashboard"
  /\ storageLocation = "local" /\ isLocalFileActive
  /\ clock < MaxClock
  /\ \E selected \in {0} \cup {localCredentials[i].id :
                                 i \in 1..Len(localCredentials)} :
       /\ selected = 0 => Len(localCredentials) < MaxRows
       /\ \E credentialData \in
               IF selected = 0 THEN SessionForms ELSE SessionPartials :
            /\ clock' = clock + 1
            /\ Finish(Auth, page,
                      [Dashboard EXCEPT !.localCredentials =
                         IF selected = 0
                         THEN LocalStorageService_addCredential(
                                @, credentialData, clock + 1)
                         ELSE LocalStorageService_updateCredential(
                                @, selected, credentialData, clock + 1)],
                      Context, [Store EXCEPT !.clock = clock + 1], FALSE,
                      TRUE, TRUE,
                      NoCall)
  /\ UNCHANGED mediaVars

\* Dashboard.confirmDeleteCredential for local storage.
confirmDeleteCredential ==
  /\ isAuthenticated /\ page = "dashboard" /\ storageLocation = "local"
  /\ \E i \in 1..Len(localCredentials) :
       Finish(Auth, page,
              [Dashboard EXCEPT !.localCredentials =
                 LocalStorageService_deleteCredential(@, localCredentials[i].id)],
              Context, Store, FALSE, TRUE, TRUE,
              NoCall)
  /\ UNCHANGED mediaVars

\* Dashboard.handleSaveLocalFile (its button is enabled with a local file
\* active and a key held).
handleSaveLocalFile ==
  /\ isAuthenticated /\ page = "dashboard" /\ storageLocation = "local"
  /\ isLocalFileActive /\ monoKey # NoKey
  /\ \E r \in SessionDraws :
       /\ download' =
            IF user = NoUser THEN download
            ELSE downloadLocalFile(
                   localCredentials, monoKey, user.id, EmailOf(user.id),
                   NameOf(user.id),
                   IF selectedLocalFile # NoFile THEN selectedLocalFile.name
                   ELSE "monokey-credentials", r)
       /\ Finish(Auth, page,
                 IF user = NoUser THEN Dashboard
                 ELSE [Dashboard EXCEPT !.hasUnsavedChanges = FALSE],
                 Context, Store, FALSE, FALSE, TRUE,
                 Call("handleSaveLocalFile", "", Len(localCredentials) > 0,
                      NoFile))
  /\ UNCHANGED <<profiles, browserStorage>>

\* Dashboard.handleRemoveSelectedFile; confirmed is the answer to the dialog
\* shown when there are unsaved changes.
handleRemoveSelectedFile ==
  /\ isAuthenticated /\ page = "dashboard" /\ storageLocation = "local"
  /\ isLocalFileActive \/ fileOwnerInfo # <<>>
  /\ \E confirmed \in BOOLEAN :
       Finish(Auth, page,
              IF hasUnsavedChanges /\ ~confirmed THEN Dashboard
              ELSE [Dashboard EXCEPT
                      !.selectedLocalFile = NoFile, !.localCredentials = <<>>,
                      !.isLocalFileActive = FALSE, !.hasUnsavedChanges = FALSE,
                      !.fileOwnerInfo = <<>>],
              Context, Store, FALSE, ~(hasUnsavedChanges /\ ~confirmed),
              TRUE, NoCall)
  /\ UNCHANGED mediaVars

\* Nobody is signed in; the account has not signed up yet, or it has a profile
\* row without hash (the default of the column).
Init ==
  /\ cP = EmptyText /\ cS1 = "monokey-1" /\ cS2 = "monokey-1" /\ cEnv = <<>>
  /\ cRes = NoRes /\ cHash = "none" /\ cVerify = "none" /\ cPc = "start"
  /\ encCalls = <<>> /\ SideIdle
  /\ user = NoUser /\ monoKey = NoKey
  /\ isAuthenticated = FALSE /\ isMonoKeyVerified = FALSE
  /\ page = "login"
  /\ credentials = <<>> /\ hasLoadedCredentials = FALSE
  /\ dashboardCredentials = DashboardInit.credentials
  /\ storageLocation = DashboardInit.storageLocation
  /\ nextStorageLocation = DashboardInit.nextStorageLocation
  /\ localCredentials = DashboardInit.localCredentials
  /\ isLocalFileActive = DashboardInit.isLocalFileActive
  /\ hasUnsavedChanges = DashboardInit.hasUnsavedChanges
  /\ selectedLocalFile = DashboardInit.selectedLocalFile
  /\ fileOwnerInfo = DashboardInit.fileOwnerInfo
  /\ pendingAction = DashboardInit.pendingAction
  /\ isMonoPasswordPromptOpen = DashboardInit.isMonoPasswordPromptOpen
  /\ attempts = DashboardInit.attempts
  /\ profiles \in [Users -> {NoProfile, EmptyHash}]
  /\ browserStorage = {}
  /\ download = NoFile
  /\ lastCall = NoCall
  /\ StoreIdle

\* The handlers of a session on cloud storage.
Next ==
  \/ SignUp \/ SignIn \/ AuthStateSignedIn \/ SignOut \/ Navigate
  \/ handleMonoPasswordSetup \/ handleChangeMonoPassword
  \/ handleSubmit \/ handleClose
  \/ loadCredentials \/ addCredential \/ updateCredential \/ removeCredential

Spec == Init /\ [][Next]_vars

\* C6: whenever a master key is held in memory for a signed-in account, its
\* hash is the hash stored in the profile row of that account.
KeyMatchesStoredHash ==
  (monoKey # NoKey /\ user # NoUser) =>
    profiles[user.id] = hashPassword(monoKey)

\* The CredentialContext operations that list, create and update.
KeyedOps == {"loadCredentials", "addCredential", "updateCredential"}
\* The last handler was one of them, called while no key was held.
CalledLocked == monoKey = NoKey /\ lastCall.op \in KeyedOps

LockoutAtThird ==
  [][attempts' > attempts =>
       /\ attempts' = attempts + 1
       /\ monoKey' = monoKey /\ isMonoKeyVerified' = isMonoKeyVerified
       /\ pendingAction' = pendingAction
       /\ ~isMonoPasswordPromptOpen' <=> attempts' = 3]_vars

\* C14: a step that puts a key in memory for a profile without hash (the
\* setup) happens only while the stored hash of the account is empty and
\* leaves the hash of that key stored; a step that leaves the stored hash
\* empty leaves no key in memory.
SetupPersistsFirst ==
  [][/\ (monoKey = NoKey /\ monoKey' # NoKey /\ user # NoUser
          /\ user.monoPasswordHash = EmptyHash) =>
            /\ profiles[user.id] = EmptyHash
            /\ profiles'[user.id] = hashPassword(monoKey')
     /\ \A u \in Users :
          (profiles[u] \in {NoProfile, EmptyHash} /\ profiles'[u] = profiles[u]) =>
            /\ monoKey' = NoKey /\ ~isMonoKeyVerified'
            /\ (user' # NoUser => user'.monoPasswordHash = EmptyHash)]_vars
\* The setup has stored the hash and the refreshUser after it has failed: the
\* only way to a key in memory beside a cleared profile.
SetupPersistsFirstWitness ==
  /\ user = NoUser /\ monoKey # NoKey /\ isMonoKeyVerified
  /\ session \in Users /\ profiles[session] = hashPassword(monoKey)

(***************************************************************************)
(* SpecLocal: the Dashboard on local files.  The account has signed up and *)
(* has just signed in: the Dashboard is mounted and its effect has opened  *)
(* the prompt.                                                             *)
(***************************************************************************)
InitLocal ==
  /\ cP = EmptyText /\ cS1 = "monokey-1" /\ cS2 = "monokey-1" /\ cEnv = <<>>
  /\ cRes = NoRes /\ cHash = "none" /\ cVerify = "none" /\ cPc = "start"
  /\ encCalls = <<>> /\ SideIdle
  /\ user = [id |-> "uA", monoPasswordHash |-> hashPassword("monokey-1")]
  /\ monoKey = NoKey
  /\ isAuthenticated = TRUE /\ isMonoKeyVerified = FALSE
  /\ page = "dashboard"
  /\ credentials = <<>> /\ hasLoadedCredentials = FALSE
  /\ dashboardCredentials = DashboardInit.credentials
  /\ storageLocation = DashboardInit.storageLocation
  /\ nextStorageLocation = DashboardInit.nextStorageLocation
  /\ localCredentials = DashboardInit.localCredentials
  /\ isLocalFileActive = DashboardInit.isLocalFileActive
  /\ hasUnsavedChanges = DashboardInit.hasUnsavedChanges
  /\ selectedLocalFile = DashboardInit.selectedLocalFile
  /\ fileOwnerInfo = DashboardInit.fileOwnerInfo
  /\ pendingAction = DashboardInit.pendingAction
  /\ isMonoPasswordPromptOpen = TRUE
  /\ attempts = DashboardInit.attempts
  /\ profiles = [u \in Users |-> hashPassword("monokey-1")]
  /\ browserStorage = {SessionToken("uA")}
  /\ download = NoFile
  /\ lastCall = NoCall
  /\ session = "uA" /\ rows = <<>> /\ clock = 0 /\ payload = EmptyObj
  /\ sOp = NoOp

NextLocal ==
  \/ SignIn \/ AuthStateSignedIn \/ SignOut \/ handleSubmit \/ handleClose
  \/ handleStorageLocationChange \/ handleConfirmDiscardAndSwitch
  \/ handleFileSelect \/ handleCreateNewFile \/ handleSaveCredential
  \/ confirmDeleteCredential \/ handleSaveLocalFile \/ handleRemoveSelectedFile

SpecLocal == InitLocal /\ [][NextLocal]_vars

\* The file carries the owner tag of the signed-in account.
OwnerMatches(file) == file.ownerTag = OwnerTag(user.id, EmailOf(user.id))

\* C5: selecting a local file whose owner tag is not that of the signed-in
\* account calls no decrypt, leaves the prompt as it was, queues no pending
\* load and leaves the local session without file; and no handler ever calls
\* decrypt on a file whose owner tag is not that of the signed-in account.
OwnershipGate ==
  /\ [][(lastCall'.op = "handleFileSelect" /\ ~OwnerMatches(lastCall'.file)) =>
          /\ ~lastCall'.crypto /\ lastCall'.err # ""
          /\ isMonoPasswordPromptOpen' = isMonoPasswordPromptOpen
          /\ pendingAction' = pendingAction
          /\ ~isLocalFileActive' /\ selectedLocalFile' = NoFile
          /\ localCredentials' = localCredentials]_vars
  /\ []((lastCall.crypto /\ lastCall.file # NoFile) => OwnerMatches(lastCall.file))
  /\ [](pendingAction.type = "loadLocal" => OwnerMatches(pendingAction.file))
\* A file of another owner, holding an encrypted record, was selected and
\* refused.
OwnershipGateWitness ==
  /\ user # NoUser /\ lastCall.op = "handleFileSelect"
  /\ ~OwnerMatches(lastCall.file) /\ lastCall.file.credentials # <<>>
  /\ lastCall.err # ""

\* C13: while a master key is in memory no step opens the prompt, and no step
\* replaces the key by another one (it can only be cleared).
NoUnlockWhenUnlocked ==
  [][monoKey # NoKey =>
       /\ isMonoPasswordPromptOpen' => isMonoPasswordPromptOpen
       /\ monoKey' \in {monoKey, NoKey}]_vars

\* C15: a step taken with a key in memory queues no action, and the step that
\* puts a verified key in memory runs the pending load of a local file (once:
\* no pending action remains after it).
QueueAndReplay ==
  [][/\ (monoKey # NoKey /\ pendingAction' # pendingAction) =>
            pendingAction' = NoAction
     /\ (monoKey = NoKey /\ monoKey' # NoKey
          /\ pendingAction.type = "loadLocal") =>
            /\ pendingAction' = NoAction
            /\ lastCall'.op = "handleMonoPasswordVerified"
            /\ lastCall'.file = pendingAction.file]_vars

\* C16: choosing a storage location while a local file with unsaved changes is
\* active leaves the working set and the flag as they are (the discard needs
\* the confirmation that follows).
NoSilentDiscard ==
  [][(lastCall'.op = "handleStorageLocationChange" /\ storageLocation = "local"
      /\ isLocalFileActive /\ hasUnsavedChanges) =>
        /\ localCredentials' = localCredentials
        /\ isLocalFileActive' /\ hasUnsavedChanges'
        /\ selectedLocalFile' = selectedLocalFile]_vars

\* C17: the step that loads a non-empty file leaves hasUnsavedChanges false,
\* and the step that deletes the last record of the active file leaves it
\* true.
DirtyFlag ==
  [][/\ (lastCall'.op = "handleMonoPasswordVerified" /\ lastCall'.err = ""
          /\ lastCall'.file # NoFile /\ selectedLocalFile' = lastCall'.file
          /\ localCredentials' # <<>>) => ~hasUnsavedChanges'
     /\ (storageLocation = "local" /\ isLocalFileActive /\ isLocalFileActive'
          /\ Len(localCredentials) = 1 /\ localCredentials' = <<>>) =>
            hasUnsavedChanges']_vars

(***************************************************************************)
(* SpecMedia: the handlers that write to a durable medium (the profile     *)
(* row, the credentials rows, the downloaded file, the browser's storage)  *)
(* and those that lead to them.                                            *)
(***************************************************************************)
NextMedia ==
  \/ SignUp \/ SignIn \/ SignOut \/ Navigate
  \/ handleMonoPasswordSetup \/ handleChangeMonoPassword
  \/ handleSubmit
  \/ addCredential \/ updateCredential \/ removeCredential
  \/ handleStorageLocationChange
  \/ handleCreateNewFile \/ handleSaveCredential \/ handleSaveLocalFile

SpecMedia == Init /\ [][NextMedia]_vars

\* The strings a master key can be.
KeyTexts == Secrets \cup {ShortSecret}
\* An envelope as encrypt makes it: salt, iv and one ciphertext, nothing else.
IsEnvelope(text) ==
  /\ Len(Split(text)) = 3
  /\ \A i \in 1..2 : Len(Split(text)[i]) = 1 /\ Split(text)[i][1].t = "hex"
  /\ Len(Split(text)[3]) = 1 /\ Split(text)[3][1].t = "b64"

\* C3: no durable medium holds a master key in clear: the profile row holds
\* nothing, the empty default or a SHA-256 digest; the columns of the
\* credentials rows and the fields of the downloaded file are not a master
\* key and their encrypted data is an envelope; the browser's storage has
\* no item that is one.
NoPlainKeyDurable ==
  /\ \A u \in Users :
       /\ profiles[u] \notin {Str(k) : k \in KeyTexts}
       /\ profiles[u] \in {NoProfile, EmptyHash} \cup {SHA256(k) : k \in KeyTexts}
  /\ \A i \in 1..Len(rows) :
       /\ {rows[i].user_id, rows[i].account_name, rows[i].icon} \cap KeyTexts = {}
       /\ IsEnvelope(rows[i].encrypted_data)
  /\ download.name \notin KeyTexts
  /\ \A i \in 1..Len(download.credentials) :
       /\ {download.credentials[i].accountName, download.credentials[i].icon}
            \cap KeyTexts = {}
       /\ IsEnvelope(download.credentials[i].encryptedData)
  /\ \A item \in browserStorage : {item.key, item.sub} \cap KeyTexts = {}
\* After setup or sign-up, a stored credential and a saved local file with a
\* record, the user has signed out.
NoPlainKeyDurableWitness ==
  /\ \E k \in Secrets : profiles["uA"] = SHA256(k)
  /\ rows # <<>> /\ download # NoFile /\ download.credentials # <<>>
  /\ user = NoUser /\ browserStorage = {}

(***************************************************************************)
(* SpecCrypto: the CryptoUtils functions and verifyMonoKey applied to      *)
(* every combination of the inputs below.                                  *)
(***************************************************************************)
\* Plaintexts given to encrypt: the empty string, a text that is not JSON, a
\* numeric text and JSON texts of sensitive data.
PlainTexts ==
  {EmptyText, TextRaw("p@ss"), TextRaw("9"),
   JSONstringify(Sensitive("a@b.com", "p@ss", "", "", "")),
   JSONstringify(Sensitive("a@b.com", "p@ss", "r@b.com", UNDEF, UNDEF))}

InitCrypto ==
  /\ cP \in PlainTexts
  /\ cS1 \in Secrets
  /\ cS2 \in Secrets
  /\ cEnv = <<>>
  /\ cRes = NoRes
  /\ cHash \in {"none"}
  /\ cVerify \in {"none"}
  /\ cPc = "start"
  /\ encCalls = <<>> /\ SideIdle
  /\ user \in {NoUser, [id |-> "uA", monoPasswordHash |-> EmptyHash],
               [id |-> "uA", monoPasswordHash |-> hashPassword(cS1)]}
  /\ monoKey = NoKey
  /\ isAuthenticated = (user # NoUser)
  /\ isMonoKeyVerified = FALSE
  /\ UiIdle
  /\ StoreIdle

\* const e = CryptoUtils.encrypt(P, S1)
CryptoEncrypt ==
  /\ cPc = "start"
  /\ \E r \in RandomDraws : cEnv' = encrypt(cP, cS1, r)
  /\ cPc' = "encrypted"
  /\ UNCHANGED <<sideVars, cP, cS1, cS2, cRes, cHash, cVerify, encCalls, authVars, uiVars, storeVars>>

\* CryptoUtils.decrypt(e, S2)
CryptoDecrypt ==
  /\ cPc = "encrypted"
  /\ cRes' = decrypt(cEnv, cS2)
  /\ cPc' = "decrypted"
  /\ UNCHANGED <<sideVars, cP, cS1, cS2, cEnv, cHash, cVerify, encCalls, authVars, uiVars, storeVars>>

\* CryptoUtils.compareHash(S2, CryptoUtils.hashPassword(S1))
CryptoCompareHash ==
  /\ cHash = "none"
  /\ cHash' = IF compareHash(cS2, hashPassword(cS1)) THEN "true" ELSE "false"
  /\ UNCHANGED <<sideVars, cP, cS1, cS2, cEnv, cRes, cVerify, cPc, encCalls, authVars, uiVars, storeVars>>

\* verifyMonoKey(S2)
CryptoVerify ==
  /\ cVerify = "none"
  /\ cVerify' = IF verifyMonoKey(cS2) THEN "true" ELSE "false"
  /\ UNCHANGED <<sideVars, cP, cS1, cS2, cEnv, cRes, cHash, cPc, encCalls, authVars, uiVars, storeVars>>

NextCrypto == CryptoEncrypt \/ CryptoDecrypt \/ CryptoCompareHash \/ CryptoVerify

SpecCrypto == InitCrypto /\ [][NextCrypto]_vars

WrongKeyFails ==
  (cPc = "decrypted" /\ cS1 # cS2) => (~cRes.ok /\ cRes.err = DecryptError)

\* C10: compareHash and verifyMonoKey accept exactly the secret whose digest is
\* stored, and verifyMonoKey accepts nothing when no digest is stored.
HashStability ==
  /\ cHash # "none" => (cHash = "true" <=> cS2 = cS1)
  /\ (cVerify # "none" /\ user # NoUser /\ user.monoPasswordHash = hashPassword(cS1))
       => (cVerify = "true" <=> cS2 = cS1)
  /\ (cVerify # "none" /\ (user = NoUser \/ user.monoPasswordHash = EmptyHash))
       => cVerify = "false"

\* Both functions have answered for a profile that stores the digest.
HashStabilityWitness ==
  /\ cHash = "true" /\ cVerify = "true"
  /\ user # NoUser /\ user.monoPasswordHash = hashPassword(cS1)

(***************************************************************************)
(* SpecFresh: encrypt called repeatedly with one plaintext and one secret, *)
(* directly, by the remote insert and update and by the local save.  The   *)
(* random generator is taken to return no value a second time.             *)
(***************************************************************************)
\* The random values of one encryption, each drawn on its own.
IndependentDraws == [salt : 0..1, iv : 10..11, osalt : 0..1]
\* The random values handed out so far.
Drawn == {encCalls[i].r : i \in 1..Len(encCalls)}
\* The record of one encrypt: who called, the values drawn, the envelope.
EncCall(by, r, env) == [by |-> by, r |-> r, env |-> env]
\* The working set a local save writes: one credential.
FreshRecords ==
  LocalStorageService_addCredential(
    <<>>, CHOOSE credentialData \in SessionForms : TRUE, 1)

InitFresh ==
  /\ cP \in PlainTexts /\ cS1 \in Secrets /\ cS2 = cS1
  /\ cEnv = <<>> /\ cRes = NoRes
  /\ cHash = "none" /\ cVerify = "none" /\ cPc = "start" /\ encCalls = <<>> /\ SideIdle
  /\ user = NoUser /\ monoKey = NoKey
  /\ isAuthenticated = FALSE /\ isMonoKeyVerified = FALSE
  /\ UiIdle
  /\ session = "uA"
  /\ rows = <<>> /\ clock = 0 /\ payload = EmptyObj /\ sOp = NoOp

\* CryptoUtils.encrypt(P, S)
FreshEncrypt ==
  /\ Len(encCalls) < MaxCalls
  /\ \E r \in IndependentDraws \ Drawn :
       /\ cEnv' = encrypt(cP, cS1, r)
       /\ encCalls' = Append(encCalls, EncCall("encrypt", r, encrypt(cP, cS1, r)))
  /\ UNCHANGED <<sideVars, cP, cS1, cS2, cRes, cHash, cVerify, cPc, authVars, uiVars,
                 storeVars>>

\* DatabaseService.saveCredential(credential, S)
FreshSave ==
  /\ Len(encCalls) < MaxCalls /\ rows = <<>> /\ clock < MaxClock
  /\ \E credential \in SessionForms, r \in RandomDraws \ Drawn :
       \E left \in {DatabaseService_saveCredential(Store, credential, cS1, r,
                                                    TRUE)} :
         /\ Commit(left)
         /\ encCalls' = Append(encCalls,
                               EncCall("save", r, left.payload.encrypted_data))
  /\ UNCHANGED <<sideVars, cP, cS1, cS2, cEnv, cRes, cHash, cVerify, cPc, authVars,
                 uiVars, session>>

\* DatabaseService.updateCredential(id, credential, S) of a stored row
FreshUpdate ==
  /\ Len(encCalls) < MaxCalls /\ rows # <<>> /\ clock < MaxClock
  /\ \E credential \in SessionPartials, r \in RandomDraws \ Drawn :
       \E left \in {DatabaseService_updateCredential(
                       Store, rows[1].id, credential, cS1, r, TRUE)} :
         /\ left.op.ok
         /\ Commit(left)
         /\ encCalls' = Append(encCalls,
                               EncCall("update", r, left.payload.encrypted_data))
  /\ UNCHANGED <<sideVars, cP, cS1, cS2, cEnv, cRes, cHash, cVerify, cPc, authVars,
                 uiVars, session>>

\* LocalStorageService.downloadLocalFile(credentials, S, ...)
FreshLocalSave ==
  /\ Len(encCalls) < MaxCalls
  /\ \E r \in RandomDraws \ Drawn :
       \E file \in {downloadLocalFile(FreshRecords, cS1, "uA", EmailOf("uA"),
                                       NameOf("uA"), "monokey-credentials", r)} :
         /\ download' = file
         /\ encCalls' = Append(encCalls,
                               EncCall("file", r, file.credentials[1].encryptedData))
  /\ UNCHANGED <<sideVars, cP, cS1, cS2, cEnv, cRes, cHash, cVerify, cPc, authVars, page,
                 contextVars, dashboardVars, profiles, browserStorage, lastCall,
                 storeVars>>

NextFresh == FreshEncrypt \/ FreshSave \/ FreshUpdate \/ FreshLocalSave

SpecFresh == InitFresh /\ [][NextFresh]_vars

\* C11: no two calls of encrypt return the same envelope, also when plaintext
\* and secret are the same; a remote update leaves an envelope that differs
\* from the one the row had, and a local save writes a file whose envelope
\* differs from that of every file saved before.
EnvelopeFreshness ==
  /\ \A i, j \in 1..Len(encCalls) : i # j => encCalls[i].env # encCalls[j].env
  /\ (sOp.op = "update" /\ sOp.ok) =>
       rows[1].encrypted_data # sOp.before.encrypted_data
  /\ \A i \in 1..Len(encCalls) :
       (encCalls[i].by = "file" /\ download.credentials[1].encryptedData
                                    = encCalls[i].env) =>
         \A j \in 1..Len(encCalls) : encCalls[j].by = "file" => j <= i
\* encrypt was called twice with the same plaintext and secret and with
\* random values that differ in the iv alone.
EnvelopeFreshnessWitness ==
  /\ Len(encCalls) >= 2
  /\ encCalls[1].by = "encrypt" /\ encCalls[2].by = "encrypt"
  /\ encCalls[1].r.salt = encCalls[2].r.salt
  /\ encCalls[1].r.osalt = encCalls[2].r.osalt

(***************************************************************************)
(* SpecBundle: prepareLocalFileData, createEmptyFileData and readLocalFile  *)
(* on every list of records and key below; the file read is the bundle or   *)
(* a copy of it with another version or without credentials array.          *)
(***************************************************************************)
\* Credentials of a working set: every field a string, some empty, or the
\* optional ones undefined.
BundleForms ==
  SessionForms \cup SessionPartials
    \cup {[accountName |-> "Mail", icon |-> UNDEF]
            @@ Sensitive("amy", "pw", UNDEF, UNDEF, UNDEF)}
\* The working sets of up to MaxRows records, built by addCredential.
RECURSIVE BundleInputsOf(_)
BundleInputsOf(n) ==
  IF n = 0 THEN {<<>>}
  ELSE {LocalStorageService_addCredential(creds, form, n - 1) :
          creds \in BundleInputsOf(n - 1), form \in BundleForms}
BundleInputs == UNION {BundleInputsOf(n) : n \in 0..MaxRows}

\* The file whose text is JSON.stringify(fileData), written for the account.
BundleFile(fileData) ==
  [name |-> "bundle", version |-> fileData.version,
   ownerTag |-> OwnerTag("uA", EmailOf("uA")), ownerName |-> NameOf("uA"),
   credentials |-> fileData.credentials, isArray |-> TRUE,
   totalCredentials |-> fileData.totalCredentials]
\* A version string other than FILE_VERSION.
OtherVersion == "9.9.9"
\* Copies of a file without version, with another version, and with
\* credentials that is not an array.
Damaged(file) ==
  {[file EXCEPT !.version = ""], [file EXCEPT !.version = OtherVersion],
   [file EXCEPT !.isArray = FALSE, !.credentials = <<>>]}
\* The properties of a Credential.
CredentialFields ==
  {"id", "accountName", "icon", "createdAt", "updatedAt"} \cup SensitiveFields
\* Two lists hold the same records in the same order.
SameRecords(a, b) ==
  /\ Len(a) = Len(b)
  /\ \A i \in 1..Len(a) :
       \A n \in CredentialFields : Prop(a[i], n) = Prop(b[i], n)

bundleStill ==
  <<sideVars, cP, cEnv, cRes, cHash, cVerify, encCalls, authVars, storeVars, page,
    contextVars, profiles, browserStorage>>

\* The account is signed in with local storage chosen and no file active;
\* localCredentials is the list to bundle, cS1 the key.
InitBundle ==
  /\ cP = EmptyText /\ cS1 \in Secrets /\ cS2 = cS1 /\ cEnv = <<>>
  /\ cRes = NoRes /\ cHash = "none" /\ cVerify = "none" /\ cPc = "start"
  /\ encCalls = <<>> /\ SideIdle
  /\ user = [id |-> "uA", monoPasswordHash |-> hashPassword(cS1)]
  /\ monoKey = cS1
  /\ isAuthenticated = TRUE /\ isMonoKeyVerified = TRUE
  /\ page = "dashboard"
  /\ credentials = <<>> /\ hasLoadedCredentials = FALSE
  /\ dashboardCredentials = DashboardInit.credentials
  /\ storageLocation = "local"
  /\ nextStorageLocation = DashboardInit.nextStorageLocation
  /\ localCredentials \in BundleInputs
  /\ isLocalFileActive = DashboardInit.isLocalFileActive
  /\ hasUnsavedChanges = DashboardInit.hasUnsavedChanges
  /\ selectedLocalFile = DashboardInit.selectedLocalFile
  /\ fileOwnerInfo = DashboardInit.fileOwnerInfo
  /\ pendingAction = DashboardInit.pendingAction
  /\ isMonoPasswordPromptOpen = FALSE
  /\ attempts = DashboardInit.attempts
  /\ profiles = [u \in Users |-> hashPassword(cS1)]
  /\ browserStorage = {SessionToken("uA")}
  /\ download = NoFile
  /\ lastCall = NoCall
  /\ session = "uA" /\ rows = <<>> /\ clock = 0 /\ payload = EmptyObj
  /\ sOp = NoOp

\* prepareLocalFileData(localCredentials, cS1)
BundlePrepare ==
  /\ cPc = "start"
  /\ \E r \in RandomDraws :
       download' = BundleFile(prepareLocalFileData(localCredentials, cS1, r))
  /\ cPc' = "prepared"
  /\ lastCall' = Call("prepareLocalFileData", "", Len(localCredentials) > 0,
                      NoFile)
  /\ UNCHANGED <<bundleStill, cS1, cS2, dashboardVars>>

\* createEmptyFileData()
BundleCreateEmpty ==
  /\ cPc = "start"
  /\ download' = BundleFile(createEmptyFileData)
  /\ cPc' = "empty"
  /\ lastCall' = Call("createEmptyFileData", "", FALSE, NoFile)
  /\ UNCHANGED <<bundleStill, cS1, cS2, dashboardVars>>

\* readLocalFile(file, cS2) of the bundle or of a damaged copy; the list it
\* returns is kept in dashboardCredentials.
BundleRead ==
  /\ cPc # "start" /\ lastCall.op # "loadLocalFile"
  /\ \E file \in {download} \cup Damaged(download), monoPassword \in Secrets :
       \E read \in {readLocalFile(file, monoPassword)} :
         /\ cS2' = monoPassword
         /\ dashboardCredentials' = read.list
         /\ lastCall' = Call("readLocalFile", read.err, read.crypto, file)
  /\ UNCHANGED <<bundleStill, cS1, cPc, download, storageLocation,
                 nextStorageLocation, localCredentials, isLocalFileActive,
                 hasUnsavedChanges, selectedLocalFile, fileOwnerInfo,
                 pendingAction, isMonoPasswordPromptOpen, attempts>>

\* Dashboard.loadLocalFile(file, password) of the bundle or of a damaged copy,
\* with the effects that follow it.
BundleLoad ==
  /\ cPc # "start" /\ lastCall.op # "loadLocalFile"
  /\ \E file \in {download} \cup Damaged(download), password \in Secrets :
       \E read \in {readLocalFileOwned(file, password, user.id,
                                       EmailOf(user.id))} :
         Finish(Auth, page, loadLocalFile(Dashboard, file, password),
                Context, Store, FALSE, read.ok, TRUE,
                Call("loadLocalFile", read.err, read.crypto, file))
  /\ UNCHANGED mediaVars

NextBundle == BundlePrepare \/ BundleCreateEmpty \/ BundleRead \/ BundleLoad

SpecBundle == InitBundle /\ [][NextBundle]_vars

\* C18: reading or loading a file whose version is missing or not the current
\* one, or whose credentials are not an array, gives the format error without
\* any decrypt and no record, and the load leaves the session without file.
FormatErrorFirst ==
  (/\ lastCall.op \in {"readLocalFile", "loadLocalFile"}
   /\ lastCall.file.version # FILE_VERSION \/ ~lastCall.file.isArray) =>
     /\ lastCall.err = InvalidFormat /\ ~lastCall.crypto
     /\ lastCall.op = "readLocalFile" => dashboardCredentials = <<>>
     /\ lastCall.op = "loadLocalFile" =>
          ~isLocalFileActive /\ selectedLocalFile = NoFile

\* C19: the bundle prepareLocalFileData or createEmptyFileData returns has
\* the current version and a count equal to the number of its entries, and
\* the prepared one has one entry per input record, in the input's order,
\* each with an envelope.
BundleWellFormed ==
  (cPc # "start" /\ lastCall.op # "loadLocalFile") =>
    /\ download.version = FILE_VERSION
    /\ download.totalCredentials = Len(download.credentials)
    /\ cPc = "empty" => download.credentials = <<>>
    /\ cPc = "prepared" =>
         /\ Len(download.credentials) = Len(localCredentials)
         /\ \A i \in 1..Len(localCredentials) :
              /\ download.credentials[i].id = localCredentials[i].id
              /\ download.credentials[i].accountName
                   = localCredentials[i].accountName
              /\ IsEnvelope(download.credentials[i].encryptedData)
\* A bundle of two records, the first without icon and the second with one.
BundleWellFormedWitness ==
  /\ cPc = "prepared" /\ lastCall.op = "prepareLocalFileData"
  /\ Len(localCredentials) = 2
  /\ ~Truthy(localCredentials[1].icon) /\ Truthy(localCredentials[2].icon)
  /\ download.totalCredentials = 2

\* C20: readLocalFile(prepareLocalFileData(R, K), K) returns the records of R
\* in order, every field equal.
BundleRoundTrip ==
  (/\ cPc = "prepared" /\ lastCall.op = "readLocalFile"
   /\ lastCall.file = download /\ cS2 = cS1) =>
     /\ lastCall.err = ""
     /\ SameRecords(dashboardCredentials, localCredentials)
\* Two records, one with undefined optional fields, read back under K.
BundleRoundTripWitness ==
  /\ cPc = "prepared" /\ lastCall.op = "readLocalFile"
  /\ lastCall.file = download /\ cS2 = cS1
  /\ Len(localCredentials) = 2 /\ Len(dashboardCredentials) = 2
  /\ localCredentials[1].recoveryEmail = UNDEF
  /\ localCredentials[2].username # localCredentials[2].password

(***************************************************************************)
(* SpecDecrypt: decrypt called up to MaxCalls times on the envelope encrypt *)
(* returned or a damaged copy of it, under either secret.                   *)
(***************************************************************************)
\* A ciphertext whose bytes were altered: no key decrypts it to its plaintext.
Corrupted(c) == [c EXCEPT !.key = NoCipher.key]
\* Copies of an envelope with two parts, with four parts, and with a
\* corrupted ciphertext.
DamagedEnvelopes(e) ==
  {Split(e)[1] \o <<Sep>> \o Split(e)[3],
   e \o <<Sep>> \o Split(e)[2],
   Join3(Split(e)[1], Split(e)[2], <<B64(Corrupted(Split(e)[3][1].c))>>)}
\* Why a decrypt of envelope e under secret S cannot give the plaintext.
CauseOf(e, S) ==
  IF Len(Split(e)) # 3 THEN "parts"
  ELSE IF e # cEnv THEN "ciphertext"
  ELSE IF S # cS1 THEN "secret"
  ELSE "none"
\* The record of one decrypt: the cause and what it returned or threw.
DecCall(cause, res) == [cause |-> cause, res |-> res]

InitDecrypt ==
  /\ cP \in PlainTexts /\ cS1 \in Secrets /\ cS2 = cS1
  /\ cEnv = <<>> /\ cRes = NoRes /\ cHash = "none" /\ cVerify = "none"
  /\ cPc = "start" /\ encCalls = <<>> /\ SideIdle
  /\ user = NoUser /\ monoKey = NoKey
  /\ isAuthenticated = FALSE /\ isMonoKeyVerified = FALSE
  /\ UiIdle
  /\ StoreIdle

\* CryptoUtils.decrypt(e, S)
DecryptCall ==
  /\ cPc = "encrypted" /\ Len(encCalls) < MaxCalls
  /\ \E e \in {cEnv} \cup DamagedEnvelopes(cEnv), S \in Secrets :
       \E res \in {decrypt(e, S)} :
         /\ cRes' = res
         /\ encCalls' = Append(encCalls, DecCall(CauseOf(e, S), res))
  /\ UNCHANGED <<sideVars, cP, cS1, cS2, cEnv, cHash, cVerify, cPc, authVars, uiVars,
                 storeVars>>

NextDecrypt == CryptoEncrypt \/ DecryptCall

SpecDecrypt == InitDecrypt /\ [][NextDecrypt]_vars

\* C21: every decrypt that fails throws one and the same error, whatever the
\* cause (wrong secret, not three parts, corrupted ciphertext): two failures
\* are equal as values.
FailuresAlike ==
  \A i, j \in 1..Len(encCalls) :
    (~encCalls[i].res.ok /\ ~encCalls[j].res.ok) =>
      /\ encCalls[i].res = encCalls[j].res
      /\ encCalls[i].res.err = DecryptError
\* Three failures, one of each cause.
FailuresAlikeWitness ==
  /\ Len(encCalls) = 3
  /\ \A i \in 1..3 : ~encCalls[i].res.ok
  /\ encCalls[1].cause = "secret" /\ encCalls[2].cause = "parts"
  /\ encCalls[3].cause = "ciphertext"

(***************************************************************************)
(* SpecGenerator: the PasswordGenerator of the CredentialForm, opened,      *)
(* reconfigured, refreshed, used and closed.                                *)
(***************************************************************************)
\* The options the component hands to CryptoUtils.generatePassword.
OptionsOf(g) ==
  [length |-> g.length, includeUppercase |-> g.includeUppercase,
   includeLowercase |-> g.includeLowercase,
   includeNumbers |-> g.includeNumbers,
   includeSpecialChars |-> g.includeSpecialChars]
\* PasswordGenerator.generatePassword(): setPassword(newPassword)
Generated(g, random) ==
  [g EXCEPT !.password = generatePassword(OptionsOf(g), random)]
\* The effect on [isOpen, length, include...]: a new password while open.
GeneratorEffect(g) ==
  IF g.isOpen THEN {Generated(g, random) : random \in RandomIndexes(OptionsOf(g))}
  ELSE {g}
genStill ==
  <<cryptoVars, authVars, storeVars, uiVars, asyncVars, processingVars>>

InitGenerator ==
  /\ cP = EmptyText /\ cS1 = "monokey-1" /\ cS2 = "monokey-1" /\ cEnv = <<>>
  /\ cRes = NoRes /\ cHash = "none" /\ cVerify = "none" /\ cPc = "start"
  /\ encCalls = <<>> /\ SideIdle
  /\ user = NoUser /\ monoKey = NoKey
  /\ isAuthenticated = FALSE /\ isMonoKeyVerified = FALSE
  /\ UiIdle
  /\ StoreIdle

\* CredentialForm: setIsPasswordGenOpen(true)
GeneratorOpen ==
  /\ ~generator.isOpen
  /\ generator' \in GeneratorEffect([generator EXCEPT !.isOpen = TRUE])
  /\ UNCHANGED genStill

\* The slider: setLength(parseInt(e.target.value))
GeneratorSetLength ==
  /\ generator.isOpen
  /\ \E n \in 1..MaxLength :
       /\ n # generator.length
       /\ generator' \in GeneratorEffect([generator EXCEPT !.length = n])
  /\ UNCHANGED genStill

\* One of the four checkboxes: setInclude...(e.target.checked)
GeneratorToggle ==
  /\ generator.isOpen
  /\ \E class \in {"includeUppercase", "includeLowercase", "includeNumbers",
                   "includeSpecialChars"} :
       generator' \in GeneratorEffect([generator EXCEPT ![class] = ~@])
  /\ UNCHANGED genStill

\* The refresh button: generatePassword()
GeneratorRefresh ==
  /\ generator.isOpen
  /\ generator' \in {Generated(generator, random) :
                       random \in RandomIndexes(OptionsOf(generator))}
  /\ UNCHANGED genStill

\* usePassword() with CredentialForm.handlePasswordGenerated: the password is
\* put in the form and the generator closed, unless the password is empty.
usePassword ==
  /\ generator.isOpen
  /\ generator' =
       IF generator.password # <<>>
       THEN [generator EXCEPT !.formPassword = generator.password,
                              !.isOpen = FALSE]
       ELSE generator
  /\ UNCHANGED genStill

\* onClose: setIsPasswordGenOpen(false)
GeneratorClose ==
  /\ generator.isOpen
  /\ generator' = [generator EXCEPT !.isOpen = FALSE]
  /\ UNCHANGED genStill

NextGenerator ==
  \/ GeneratorOpen \/ GeneratorSetLength \/ GeneratorToggle
  \/ GeneratorRefresh \/ usePassword \/ GeneratorClose

SpecGenerator == InitGenerator /\ [][NextGenerator]_vars

\* The characters of the classes selected in the generator.
SelectedChars ==
  {Charset(OptionsOf(generator))[i] :
     i \in 1..Len(Charset(OptionsOf(generator)))}
\* C22: the generated password has exactly the chosen length and only
\* characters of the selected classes, it is empty when no class is selected,
\* and the form never receives an empty password from the generator.
GeneratedAsAsked ==
  /\ generator.isOpen =>
       /\ Len(generator.password)
            = IF SelectedChars = {} THEN 0 ELSE generator.length
       /\ \A i \in 1..Len(generator.password) :
            generator.password[i] \in SelectedChars
  /\ generator.formPassword # <<>>
\* A password of the largest length from two classes was put in the form, and
\* the generator is open again with no class selected.
GeneratedAsAskedWitness ==
  /\ generator.formPassword # Unset
  /\ Len(generator.formPassword) = MaxLength
  /\ generator.isOpen /\ SelectedChars = {} /\ generator.password = <<>>

(***************************************************************************)
(* The working set of a local file: LocalStorageService.addCredential,     *)
(* updateCredential and deleteCredential applied to localCredentials, as   *)
(* the Dashboard applies them with the data of the CredentialForm.         *)
(***************************************************************************)
\* The time of a call: later than every stamp of the initial working set.
Now == MaxRows + clock
\* An id no record of a working set has.
AbsentId == 0
\* The ids a call can name: those of the records and one that is absent.
IdsOf(creds) == {creds[i].id : i \in 1..Len(creds)} \cup {AbsentId}
\* The call the last step made, with the list it was given.
WorkingSetCall(op, id, before) ==
  [op |-> op, err |-> "", crypto |-> FALSE, file |-> NoFile,
   id |-> id, now |-> Now, before |-> before]

workingSetStill ==
  <<sideVars, cryptoVars, authVars, session, rows, payload, sOp, page,
    contextVars, mediaVars, dashboardCredentials, storageLocation,
    nextStorageLocation, isLocalFileActive, hasUnsavedChanges,
    selectedLocalFile, fileOwnerInfo, pendingAction, isMonoPasswordPromptOpen,
    attempts>>

InitWorkingSet == InitBundle

\* localCredentials = LocalStorageService.addCredential(localCredentials, form)
WorkingSetAdd ==
  /\ clock < MaxCalls /\ Len(localCredentials) <= MaxRows
  /\ \E form \in BundleForms :
       localCredentials' =
         LocalStorageService_addCredential(localCredentials, form, Now)
  /\ lastCall' = WorkingSetCall("addCredential", 100 + Now, localCredentials)
  /\ clock' = clock + 1
  /\ UNCHANGED workingSetStill

\* localCredentials = LocalStorageService.updateCredential(localCredentials,
\*   credentialId, updates)
WorkingSetUpdate ==
  /\ clock < MaxCalls
  /\ \E id \in IdsOf(localCredentials), updates \in SessionPartials \cup Partials :
       /\ localCredentials' =
            LocalStorageService_updateCredential(localCredentials, id, updates,
                                                 Now)
       /\ lastCall' = WorkingSetCall("updateCredential", id, localCredentials)
  /\ clock' = clock + 1
  /\ UNCHANGED workingSetStill

\* localCredentials = LocalStorageService.deleteCredential(localCredentials,
\*   credentialId)
WorkingSetDelete ==
  /\ clock < MaxCalls
  /\ \E id \in IdsOf(localCredentials) :
       /\ localCredentials' =
            LocalStorageService_deleteCredential(localCredentials, id)
       /\ lastCall' = WorkingSetCall("deleteCredential", id, localCredentials)
  /\ clock' = clock + 1
  /\ UNCHANGED workingSetStill

NextWorkingSet == WorkingSetAdd \/ WorkingSetUpdate \/ WorkingSetDelete

SpecWorkingSet == InitWorkingSet /\ [][NextWorkingSet]_vars

\* The records of a list whose id is not the given one, in order.
Others(creds, id) == SelectSeq(creds, LAMBDA cred : cred.id # id)
FreshLoad(table) == DatabaseService_getCredentials(table, session, monoKey)
\* Two lists hold the same records in the same order, updatedAt aside.
SameButUpdatedAt(a, b) ==
  /\ Len(a) = Len(b)
  /\ \A i \in 1..Len(a) :
       \A n \in CredentialFields \ {"updatedAt"} : Prop(a[i], n) = Prop(b[i], n)
\* C26: when the list in memory agrees with the store, it still agrees with
\* it (updatedAt aside) after CredentialContext.updateCredential or
\* addCredential succeeded.
CacheFollowsStore ==
  [][(/\ lastCall'.op \in {"updateCredential", "addCredential"}
      /\ lastCall'.err = "" /\ monoKey # NoKey /\ monoKey' = monoKey
      /\ SameButUpdatedAt(credentials, FreshLoad(rows))) =>
        SameButUpdatedAt(credentials', FreshLoad(rows'))]_vars

(***************************************************************************)
(* AuthContext and CredentialContext step by step: the listener of         *)
(* supabase.auth.onAuthStateChange and signOut() up to each await, the     *)
(* effect of CredentialContext, and loadCredentials up to its await of     *)
(* DatabaseService.getCredentials. Initialization has finished.            *)
(***************************************************************************)
\* The master key of each account.
KeyOf(uid) == IF uid = "uA" THEN "monokey-1" ELSE "monokey-2"
\* One row of each account in the table, encrypted under the account's key.
AsyncRows ==
  LET form == CHOOSE f \in SessionForms : TRUE
      a == DatabaseService_saveCredential(
             [session |-> "uA", rows |-> <<>>, clock |-> 0, payload |-> EmptyObj],
             form, KeyOf("uA"), Draw(0), TRUE)
      b == DatabaseService_saveCredential(
             [session |-> "uB", rows |-> a.rows, clock |-> a.clock,
              payload |-> EmptyObj],
             form, KeyOf("uB"), Draw(1), TRUE)
  IN b.rows

\* The last request or event of a session: signIn, signOut, an event of the
\* listener, setMonoKey or a manual loadCredentials.
AsyncCall(op) == [op |-> op, err |-> "", crypto |-> FALSE, file |-> NoFile]

\* The effect of CredentialContext on [user?.id, !!monoKey, isInitialLoading]
\* for the user and key of the new render; hasLoadedCredentials is the value
\* of that render. What it leaves: the refs, the list, and whether it called
\* loadCredentials().
CredentialEffect(u, k) ==
  LET currentUserId == u.id
      currentMonoKeyStatus == k # NoKey
      userChanged == lastUserIdRef # currentUserId
      keyRef == IF userChanged THEN currentMonoKeyStatus
                ELSE lastMonoKeyStatusRef
      keyChanged == ~(userChanged /\ currentUserId = "")
                      /\ keyRef # currentMonoKeyStatus
      willLoad == currentMonoKeyStatus /\ ~hasLoadedCredentials
      ref == IF userChanged \/ (keyChanged /\ willLoad) THEN FALSE
             ELSE loadingRef
      start == /\ ~(userChanged /\ currentUserId = "")
               /\ u # NoUser /\ k # NoKey /\ ~hasLoadedCredentials /\ ~ref
  IN [lastUserIdRef |-> currentUserId,
      lastMonoKeyStatusRef |->
        IF userChanged /\ currentUserId = "" THEN keyRef
        ELSE currentMonoKeyStatus,
      credentials |-> IF userChanged THEN <<>> ELSE credentials,
      hasLoadedCredentials |->
        IF userChanged \/ (keyChanged /\ willLoad) THEN FALSE
        ELSE hasLoadedCredentials,
      loadingRef |-> start \/ ref,
      start |-> start]

\* A getCredentials(monoKey) that loadCredentials awaits: asked, then answered
\* by the remote with a list or an error.
Asked(k) == [key |-> k, pc |-> "asked", ok |-> FALSE, list |-> <<>>]

\* The render with user u and key k: the effect runs when user?.id or !!monoKey
\* changed, and the getCredentials it starts joins those in flight.
Render(a) ==
  LET changed == a.user.id # user.id \/ (a.monoKey # NoKey) # (monoKey # NoKey)
      eff == CredentialEffect(a.user, a.monoKey)
  IN /\ SetAuth(a)
     /\ IF changed
        THEN /\ lastUserIdRef' = eff.lastUserIdRef
             /\ lastMonoKeyStatusRef' = eff.lastMonoKeyStatusRef
             /\ credentials' = eff.credentials
             /\ hasLoadedCredentials' = eff.hasLoadedCredentials
             /\ loadingRef' = eff.loadingRef
             /\ inFlight' = IF eff.start THEN Append(inFlight, Asked(a.monoKey))
                            ELSE inFlight
        ELSE UNCHANGED <<lastUserIdRef, lastMonoKeyStatusRef, contextVars,
                         loadingRef, inFlight>>
     /\ Len(inFlight') <= MaxInFlight

asyncStill ==
  <<generator, processingVars, cryptoVars, rows, clock, payload, sOp, page,
    dashboardVars, profiles, download>>

\* The listener of onAuthStateChange receives event for the account uid. It
\* was created by the effect of the first render, so the user it tests on
\* TOKEN_REFRESHED is the null of that render and the profile is always fetched.
onAuthStateChange(event, uid) ==
  IF authStateChangeRef
  THEN /\ Render(Auth)
       /\ UNCHANGED <<authStateChangeRef, authHandler>>
  ELSE IF event = "SIGNED_OUT"
  THEN /\ Render(Cleared)
       /\ UNCHANGED <<authStateChangeRef, authHandler>>
  ELSE /\ authStateChangeRef' = TRUE
       /\ authHandler' = [event |-> event, uid |-> uid]
       /\ Render(Auth)

\* A sign-in of the account u succeeds (signIn, or a sign-in in another tab of
\* the browser): the session is u's and SIGNED_IN reaches the listener.
SignedInEvent ==
  /\ ~signingOut
  /\ \E u \in Owners :
       /\ session' = u
       /\ browserStorage' = clearSession(browserStorage) \cup {SessionToken(u)}
       /\ onAuthStateChange("SIGNED_IN", u)
  /\ lastCall' = AsyncCall("SIGNED_IN")
  /\ UNCHANGED <<asyncStill, signingOut>>

\* supabase-js refreshed the token of the session: TOKEN_REFRESHED.
TokenRefreshedEvent ==
  /\ session # NoSession
  /\ onAuthStateChange("TOKEN_REFRESHED", session)
  /\ lastCall' = AsyncCall("TOKEN_REFRESHED")
  /\ UNCHANGED <<asyncStill, signingOut, session, browserStorage>>

\* The session ended elsewhere (another tab, expiry): SIGNED_OUT.
SignedOutEvent ==
  /\ session # NoSession /\ ~signingOut
  /\ session' = NoSession
  /\ browserStorage' = clearSession(browserStorage)
  /\ onAuthStateChange("SIGNED_OUT", "")
  /\ lastCall' = AsyncCall("SIGNED_OUT")
  /\ UNCHANGED <<asyncStill, signingOut>>

\* The listener call resumes after await fetchUserProfile(session.user); the
\* query is answered for the session there is at that time.
AuthHandlerResume ==
  /\ authHandler # NoHandler
  /\ LET userProfile == fetchUserProfile(profiles, authHandler.uid,
                                         session = authHandler.uid)
     IN Render(IF authHandler.event = "SIGNED_IN"
               THEN SignedIn(Auth, userProfile)
               ELSE IF userProfile # NoUser
               THEN [Auth EXCEPT !.user = userProfile, !.isAuthenticated = TRUE]
               ELSE Auth)
  /\ authStateChangeRef' = FALSE
  /\ authHandler' = NoHandler
  /\ UNCHANGED <<asyncStill, signingOut, session, browserStorage, lastCall>>

\* AuthContext.signOut() up to its first await: the state is cleared.
signOutCall ==
  /\ user # NoUser /\ ~signingOut
  /\ Render(Cleared)
  /\ signingOut' = TRUE
  /\ lastCall' = AsyncCall("signOut")
  /\ UNCHANGED <<asyncStill, authStateChangeRef, authHandler, session,
                 browserStorage>>

\* signOut() after authService.clearSession() and supabase.auth.signOut():
\* the session is over and SIGNED_OUT reaches the listener.
signOutRemote ==
  /\ signingOut
  /\ signingOut' = FALSE
  /\ session' = NoSession
  /\ browserStorage' = clearSession(browserStorage)
  /\ onAuthStateChange("SIGNED_OUT", "")
  /\ UNCHANGED <<asyncStill, lastCall>>

\* AuthContext.setMonoKey(key) after the key was verified against the profile.
setMonoKey ==
  /\ user # NoUser /\ monoKey = NoKey
  /\ \E key \in Secrets :
       /\ compareHash(key, user.monoPasswordHash)
       /\ Render([Auth EXCEPT !.monoKey = key, !.isMonoKeyVerified = TRUE])
  /\ lastCall' = AsyncCall("setMonoKey")
  /\ UNCHANGED <<asyncStill, authStateChangeRef, authHandler, signingOut,
                 session, browserStorage>>

\* CredentialContext.loadCredentials() called by a page (manual refresh).
loadCredentialsCall ==
  /\ monoKey # NoKey /\ ~loadingRef
  /\ Len(inFlight) < MaxInFlight
  /\ loadingRef' = TRUE
  /\ inFlight' = Append(inFlight, Asked(monoKey))
  /\ lastCall' = AsyncCall("loadCredentials")
  /\ UNCHANGED <<asyncStill, authVars, contextVars, authStateChangeRef,
                 authHandler, signingOut, lastUserIdRef, lastMonoKeyStatusRef,
                 session, browserStorage>>

\* The remote answers a getCredentials in flight: getUser() and the select for
\* the session there is at that time, then the decryption under the call's key.
getCredentialsAnswered ==
  /\ \E i \in 1..Len(inFlight) :
       /\ inFlight[i].pc = "asked"
       /\ \E got \in {DatabaseService_getCredentialsCall(
                         Store, inFlight[i].key, TRUE).op} :
            inFlight' = [inFlight EXCEPT ![i] =
                           [key |-> @.key, pc |-> "answered", ok |-> got.ok,
                            list |-> got.list]]
  /\ UNCHANGED <<asyncStill, authVars, contextVars, authStateChangeRef,
                 authHandler, signingOut, loadingRef, lastUserIdRef,
                 lastMonoKeyStatusRef, session, browserStorage, lastCall>>

\* loadCredentials resumes after its await: setCredentials(creds) and
\* setHasLoadedCredentials(true), or the catch; finally loadingRef is reset.
loadCredentialsResume ==
  /\ \E i \in 1..Len(inFlight) :
       /\ inFlight[i].pc = "answered"
       /\ IF inFlight[i].ok
          THEN /\ credentials' = inFlight[i].list
               /\ hasLoadedCredentials' = TRUE
          ELSE UNCHANGED contextVars
       /\ inFlight' = [j \in 1..(Len(inFlight) - 1) |->
                         IF j < i THEN inFlight[j] ELSE inFlight[j + 1]]
  /\ loadingRef' = FALSE
  /\ UNCHANGED <<asyncStill, authVars, authStateChangeRef, authHandler,
                 signingOut, lastUserIdRef, lastMonoKeyStatusRef, session,
                 browserStorage, lastCall>>

\* Nobody is signed in; table holds the profiles of the accounts.
AccountsReady(table) ==
  /\ cP = EmptyText /\ cS1 = "monokey-1" /\ cS2 = "monokey-1" /\ cEnv = <<>>
  /\ cRes = NoRes /\ cHash = "none" /\ cVerify = "none" /\ cPc = "start"
  /\ encCalls = <<>>
  /\ user = NoUser /\ monoKey = NoKey
  /\ isAuthenticated = FALSE /\ isMonoKeyVerified = FALSE
  /\ page = "login"
  /\ credentials = <<>> /\ hasLoadedCredentials = FALSE
  /\ dashboardCredentials = DashboardInit.credentials
  /\ storageLocation = DashboardInit.storageLocation
  /\ nextStorageLocation = DashboardInit.nextStorageLocation
  /\ localCredentials = DashboardInit.localCredentials
  /\ isLocalFileActive = DashboardInit.isLocalFileActive
  /\ hasUnsavedChanges = DashboardInit.hasUnsavedChanges
  /\ selectedLocalFile = DashboardInit.selectedLocalFile
  /\ fileOwnerInfo = DashboardInit.fileOwnerInfo
  /\ pendingAction = DashboardInit.pendingAction
  /\ isMonoPasswordPromptOpen = DashboardInit.isMonoPasswordPromptOpen
  /\ attempts = DashboardInit.attempts
  /\ profiles = table
  /\ browserStorage = {}
  /\ download = NoFile
  /\ lastCall = NoCall
  /\ session = NoSession /\ rows = AsyncRows /\ clock = MaxClock
  /\ payload = EmptyObj /\ sOp = NoOp

\* Both accounts exist with their keys set up; nobody is signed in.
InitAsync ==
  /\ AccountsReady([u \in Owners |-> hashPassword(KeyOf(u))])
  /\ SideIdle

NextAsync ==
  \/ SignedInEvent \/ TokenRefreshedEvent \/ SignedOutEvent
  \/ AuthHandlerResume \/ signOutCall \/ signOutRemote \/ setMonoKey
  \/ loadCredentialsCall \/ getCredentialsAnswered \/ loadCredentialsResume

SpecAsync == InitAsync /\ [][NextAsync]_vars

\* C28: at most one getCredentials started by loadCredentials is in flight.
OneLoadInFlight == Len(inFlight) <= 1

\* C25: when the user of the context changes from one account to another, the
\* master key in memory is null after the change.
KeyDroppedOnAccountChange ==
  [][(user # NoUser /\ user' # NoUser /\ user'.id # user.id) =>
       monoKey' = NoKey]_vars

\* C27: while the context has seen the user become null and no user is signed
\* in, the list is empty and hasLoadedCredentials is false.
NothingLoadedSignedOut ==
  (user = NoUser /\ lastUserIdRef = "") =>
    (credentials = <<>> /\ ~hasLoadedCredentials)

\* C29: after signOut() cleared the state and until a later sign-in or event,
\* user is null, isAuthenticated is false and monoKey is null.
SignOutIsFinal ==
  lastCall.op = "signOut" =>
    (user = NoUser /\ ~isAuthenticated /\ monoKey = NoKey)

\* C30: after SIGNED_OUT reached the listener, once no listener call is in
\* progress, user is null, isAuthenticated is false and monoKey is null.
SignedOutClears ==
  (lastCall.op = "SIGNED_OUT" /\ ~authStateChangeRef) =>
    (user = NoUser /\ ~isAuthenticated /\ monoKey = NoKey)

(***************************************************************************)
(* isAuthProcessing: signIn, signUp, signOut and the listener of AuthContext *)
(* up to each await, in the copy that arms a safety timer whenever it sets   *)
(* the flag (AuthContext.tsx, setAuthProcessingWithTimeout) and in the copy  *)
(* that sets the flag alone (setIsAuthProcessing).                           *)
(***************************************************************************)
\* setAuthProcessingWithTimeout(processing), or setIsAuthProcessing(processing)
\* in the copy without the timer.
SetProcessing(processing) ==
  /\ isAuthProcessing' = processing
  /\ processingTimeoutRef' =
       IF processingTimeoutRef = "absent" THEN "absent"
       ELSE IF processing THEN "armed" ELSE "null"

processingStill ==
  <<generator, cryptoVars, rows, clock, payload, sOp, page, dashboardVars,
    download, signingOut>>

\* The listener receives event for the account uid.
onAuthStateChangeProcessing(event, uid) ==
  IF authStateChangeRef
  THEN /\ Render(Auth)
       /\ UNCHANGED <<authStateChangeRef, authHandler, isAuthProcessing,
                      processingTimeoutRef>>
  ELSE IF event = "SIGNED_OUT"
  THEN /\ Render(Cleared)
       /\ SetProcessing(FALSE)
       /\ UNCHANGED <<authStateChangeRef, authHandler>>
  ELSE /\ authStateChangeRef' = TRUE
       /\ authHandler' = [event |-> event, uid |-> uid]
       /\ Render(Auth)
       /\ IF event = "SIGNED_IN" THEN SetProcessing(TRUE)
          ELSE UNCHANGED <<isAuthProcessing, processingTimeoutRef>>

\* The pages are mounted: the routes of App show a spinner while isLoading.
PagesMounted == ~isAuthProcessing /\ authCall = NoAuthCall

\* AuthContext.signIn(email, password) up to await signInWithPassword.
signInCall ==
  /\ PagesMounted /\ ~isAuthenticated
  /\ \E u \in Owners : authCall' = [op |-> "signIn", uid |-> u]
  /\ SetProcessing(TRUE)
  /\ lastCall' = AsyncCall("signIn")
  /\ UNCHANGED <<processingStill, authVars, contextVars, asyncVars, session,
                 profiles, browserStorage>>

\* signIn after the await: an error resets the flag; a success leaves it to
\* the listener, which receives SIGNED_IN.
signInResume ==
  /\ authCall.op = "signIn"
  /\ authCall' = NoAuthCall
  /\ IF profiles[authCall.uid] # NoProfile
     THEN /\ session' = authCall.uid
          /\ browserStorage' =
               clearSession(browserStorage) \cup {SessionToken(authCall.uid)}
          /\ onAuthStateChangeProcessing("SIGNED_IN", authCall.uid)
     ELSE /\ SetProcessing(FALSE)
          /\ UNCHANGED <<authVars, contextVars, asyncVars, session,
                         browserStorage>>
  /\ UNCHANGED <<processingStill, profiles, lastCall>>

\* AuthContext.signUp(email, password, userData) up to await auth.signUp.
signUpCall ==
  /\ PagesMounted /\ ~isAuthenticated
  /\ \E u \in Owners : authCall' = [op |-> "signUp", uid |-> u]
  /\ SetProcessing(TRUE)
  /\ lastCall' = AsyncCall("signUp")
  /\ UNCHANGED <<processingStill, authVars, contextVars, asyncVars, session,
                 profiles, browserStorage>>

\* signUp after its awaits: the account exists already (error), or it is
\* created and its profile fetched; finally the flag is reset.
signUpResume ==
  /\ authCall.op = "signUp"
  /\ authCall' = NoAuthCall
  /\ IF profiles[authCall.uid] # NoProfile
     THEN UNCHANGED <<authVars, contextVars, lastUserIdRef,
                      lastMonoKeyStatusRef, loadingRef, inFlight, session,
                      profiles, browserStorage>>
     ELSE \E profileOk \in BOOLEAN :
            LET table == [profiles EXCEPT
                            ![authCall.uid] = hashPassword(KeyOf(authCall.uid))]
                userProfile == fetchUserProfile(table, authCall.uid, profileOk)
            IN /\ profiles' = table
               /\ session' = authCall.uid
               /\ browserStorage' =
                    clearSession(browserStorage)
                      \cup {SessionToken(authCall.uid)}
               /\ Render(IF userProfile # NoUser
                         THEN SignedIn(Auth, userProfile) ELSE Auth)
  /\ SetProcessing(FALSE)
  /\ UNCHANGED <<processingStill, authStateChangeRef, authHandler, lastCall>>

\* AuthContext.signOut() up to its first await.
signOutCallProcessing ==
  /\ PagesMounted /\ isAuthenticated
  /\ authCall' = [op |-> "signOut", uid |-> ""]
  /\ SetProcessing(TRUE)
  /\ Render(Cleared)
  /\ lastCall' = AsyncCall("signOut")
  /\ UNCHANGED <<processingStill, authStateChangeRef, authHandler, session,
                 profiles, browserStorage>>

\* signOut() after its awaits: SIGNED_OUT reaches the listener, and finally
\* the flag is reset.
signOutResume ==
  /\ authCall.op = "signOut"
  /\ authCall' = NoAuthCall
  /\ session' = NoSession
  /\ browserStorage' = clearSession(browserStorage)
  /\ Render(IF authStateChangeRef THEN Auth ELSE Cleared)
  /\ SetProcessing(FALSE)
  /\ UNCHANGED <<processingStill, authStateChangeRef, authHandler, profiles,
                 lastCall>>

\* supabase-js announces the session again (SIGNED_IN when the tab regains
\* focus) or its refreshed token (TOKEN_REFRESHED).
SessionEvent ==
  /\ session # NoSession
  /\ \E event \in {"SIGNED_IN", "TOKEN_REFRESHED"} :
       /\ onAuthStateChangeProcessing(event, session)
       /\ lastCall' = AsyncCall(event)
  /\ UNCHANGED <<processingStill, authCall, session, profiles, browserStorage>>

\* The listener call resumes after await fetchUserProfile(session.user).
AuthHandlerResumeProcessing ==
  /\ authHandler # NoHandler
  /\ LET userProfile == fetchUserProfile(profiles, authHandler.uid,
                                         session = authHandler.uid)
     IN Render(IF authHandler.event = "SIGNED_IN"
               THEN SignedIn(Auth, userProfile)
               ELSE IF userProfile # NoUser
               THEN [Auth EXCEPT !.user = userProfile, !.isAuthenticated = TRUE]
               ELSE Auth)
  /\ IF authHandler.event = "SIGNED_IN" THEN SetProcessing(FALSE)
     ELSE UNCHANGED <<isAuthProcessing, processingTimeoutRef>>
  /\ authStateChangeRef' = FALSE
  /\ authHandler' = NoHandler
  /\ UNCHANGED <<processingStill, authCall, session, profiles, browserStorage,
                 lastCall>>

\* The safety timer of setAuthProcessingWithTimeout fires after 10 seconds.
ProcessingTimeout ==
  /\ processingTimeoutRef = "armed"
  /\ isAuthProcessing' = FALSE
  /\ processingTimeoutRef' = "fired"
  /\ UNCHANGED <<processingStill, authVars, contextVars, asyncVars, authCall,
                 session, profiles, browserStorage, lastCall>>

\* The first account exists, the second does not yet; either copy of
\* AuthContext runs.
InitProcessing ==
  /\ AccountsReady([u \in Owners |->
                      IF u = "uA" THEN hashPassword(KeyOf(u)) ELSE NoProfile])
  /\ generator = GeneratorInit /\ AsyncIdle
  /\ isAuthProcessing = FALSE /\ authCall = NoAuthCall
  /\ processingTimeoutRef \in {"null", "absent"}

NextProcessing ==
  \/ signInCall \/ signInResume \/ signUpCall \/ signUpResume
  \/ signOutCallProcessing \/ signOutResume \/ SessionEvent
  \/ AuthHandlerResumeProcessing \/ ProcessingTimeout

\* Every await returns and an armed timer fires.
SpecProcessing ==
  /\ InitProcessing /\ [][NextProcessing]_vars
  /\ WF_vars(signInResume) /\ WF_vars(signUpResume) /\ WF_vars(signOutResume)
  /\ WF_vars(AuthHandlerResumeProcessing) /\ WF_vars(ProcessingTimeout)

\* C31: isAuthProcessing, once true, eventually is false again.
ProcessingEnds == isAuthProcessing ~> ~isAuthProcessing
\* The same for the copy with the safety timer alone.
ProcessingEndsWithTimer ==
  (isAuthProcessing /\ processingTimeoutRef # "absent") ~> ~isAuthProcessing

(***************************************************************************)
(* SpecAsync with a remote store that answers every getCredentials with a  *)
(* list, and with its awaits returning: every query is answered and every  *)
(* call that awaits resumes.                                               *)
(***************************************************************************)
\* A getCredentials was answered with an error.
LoadFailed ==
  \E i \in 1..Len(inFlight) : inFlight[i].pc = "answered" /\ ~inFlight[i].ok
\* The remote answers a getCredentials in flight with a list.
getCredentialsAnsweredOk == getCredentialsAnswered /\ ~LoadFailed'
\* getCredentialsAnsweredOk is enabled: a call is asked and there is a session
\* (getUser() answers a user, the select a list).
AnswerDue ==
  session # NoSession /\ \E i \in 1..Len(inFlight) : inFlight[i].pc = "asked"

NextAsyncOk ==
  \/ SignedInEvent \/ TokenRefreshedEvent \/ SignedOutEvent
  \/ AuthHandlerResume \/ signOutCall \/ signOutRemote \/ setMonoKey
  \/ loadCredentialsCall \/ getCredentialsAnsweredOk \/ loadCredentialsResume

SpecAsyncFair ==
  /\ InitAsync /\ [][NextAsyncOk]_vars
  /\ WF_vars(AuthHandlerResume) /\ WF_vars(signOutRemote)
  /\ WF_vars(loadCredentialsResume)
  /\ ([]<>~AnswerDue \/ []<><<getCredentialsAnsweredOk>>_vars)

\* The user of the session is in the context with their own key verified.
SignedInUnlocked ==
  /\ user # NoUser /\ session = user.id
  /\ monoKey # NoKey /\ isMonoKeyVerified
  /\ compareHash(monoKey, user.monoPasswordHash)
\* C32: with a remote that answers every getCredentials with a list, a
\* signed-in user with the key verified leads to hasLoadedCredentials, or to
\* the user signing out, with no further call of the user required.
EventuallyLoaded ==
  SignedInUnlocked ~> (hasLoadedCredentials \/ ~SignedInUnlocked)

(***************************************************************************)
(* The AuthContext state under Spec.                                       *)
(***************************************************************************)
\* C33: isAuthenticated is true exactly when user is not null.
AuthenticatedIffUser == isAuthenticated <=> (user # NoUser)
\* refreshUser, after the setup stored a hash, fetched the profile with it.
AuthenticatedIffUserWitness ==
  /\ isAuthenticated /\ user # NoUser
  /\ user.monoPasswordHash # EmptyHash /\ isMonoKeyVerified

\* C34: a master key in memory implies a user in the context.
KeyImpliesUser == monoKey # NoKey => user # NoUser

(***************************************************************************)
(* The unlock prompt under Spec.                                           *)
(***************************************************************************)
\* C35: the failed-attempt counter stays within 0..3, and it is 0 whenever
\* the prompt opens.
AttemptsInRange ==
  [][/\ attempts' \in 0..3
     /\ (~isMonoPasswordPromptOpen /\ isMonoPasswordPromptOpen') =>
          attempts' = 0]_vars

(***************************************************************************)
(* The pending action of the Dashboard under SpecLocal.                    *)
(***************************************************************************)
\* C36: when the prompt closes without a verification (cancel or lockout),
\* no pending action is left.
DismissDiscards ==
  [][(/\ isMonoPasswordPromptOpen /\ ~isMonoPasswordPromptOpen'
      /\ lastCall'.op # "handleMonoPasswordVerified") =>
        pendingAction' = NoAction]_vars

(***************************************************************************)
(* The change of the master key under Spec.                                *)
(***************************************************************************)
\* The keys verifyMonoKey accepts for the profile userProfile.
Accepted(userProfile) ==
  {k \in Secrets : userProfile # NoUser
                     /\ compareHash(k, userProfile.monoPasswordHash)}
\* The records getCredentials lists under the key k.
Listable(table, uid, k) ==
  LET creds == DatabaseService_getCredentials(table, uid, k)
  IN {creds[i] : i \in 1..Len(creds)}

\* C37: after handleChangeMonoPassword has stored the hash of a new key,
\* verification accepts the new key and no other, and every record listable
\* under the old key is listable under the new one.
ChangeKeepsVault ==
  [][(page = "settings" /\ profiles' # profiles) =>
       \A new \in Secrets :
         profiles'[session] = hashPassword(new) =>
           /\ Accepted(user') = {new}
           /\ \A old \in Accepted(user) :
                Listable(rows, session, old) \subseteq Listable(rows', session, new)]_vars

====
